---- MODULE Spec2Model ----
(***************************************************************************)
(* A model of the resource-and-consistency subsystem of Stock_counting:    *)
(*   - SQLServerConnectionPool (backend/services/connection_pool.py)       *)
(*   - SQLSyncService, in its two implementations                          *)
(*     (backend/services/erp_sync_service.py, sql_sync_service.py)         *)
(* The pool is modelled at the granularity of its shared-memory accesses   *)
(* (queue operations and critical sections of self._lock); the sync        *)
(* engine at the granularity of its awaited document-store calls.          *)
(***************************************************************************)
EXTENDS Integers, Sequences, FiniteSets, TLC

\* ------------------------------------------------------------------ bounds
MaxPoolSize == 1
MaxOverflow == 1
MaxConn == 3
MaxTime == 2
\* configuration values of the pool (recycle, timeout), in clock ticks
Recycle == 1
Timeout == 1

\* the threads that call the pool concurrently
Threads == {1, 2}

\* ---- sync engine: records in a source snapshot, full syncs attempted
MaxItems == 2
MaxRuns == 2
\* item codes; 0 stands for the empty item code ""
Keys == {0, 1, 2}
EmptyKey == 0
\* quantities, in thousandths: pairwise equal, within the tolerance, beyond it
Qtys == {0, 1, 2}
\* the float tolerance 0.001, in thousandths
Eps == 1
\* ---- background loop: loop tasks created, calls of start/stop/enable/...
MaxTasks == 2
MaxCalls == 3
\* values of sync_interval (the defaults of the two services)
Intervals == {900, 3600}
\* self._task = None
NoTask == 0
\* ---- batches of the run that is checked for its concurrency limit
MaxBatches == 6
\* max_concurrent_batches
MaxConcurrentBatches == 5
\* Python None, and a field a document does not have
NoneVal == -100
Absent == -200
Conns == 1..MaxConn
NoThread == 0
NoConn == 0

VARIABLES
    \* ---- SQLServerConnectionPool
    pool_size,          \* self.pool_size
    max_overflow,       \* self.max_overflow
    pool,               \* self._pool: FIFO queue of (conn, timestamp)
    checked_out,        \* keys of self._checked_out
    active_connections, \* self._active_connections
    lock,               \* holder of self._lock, NoThread when free
    now,                \* time.time()
    nextId,             \* next connection pyodbc.connect will hand out
    live,               \* connections opened and not yet closed
    born,               \* the time each open connection was opened (0 once closed)
    \* ---- per calling thread
    pc,                 \* position in the pool method being run
    conn,               \* local conn
    created_at,         \* local created_at
    deadline,           \* local deadline
    caller,             \* which method _create_and_track/_discard returns to
    cm,                 \* position in a `with pool.get_connection()` block
    \* ---- SQLSyncService and the two stores
    impl,               \* "erp": erp_sync_service.py, "sql": sql_sync_service.py
    batch_size,         \* batch_size, scaled down to the snapshots of the model
    source,             \* the relational store: what get_all_items() returns
    docs,               \* mongo_db.erp_items: item code -> document (NoDoc if none)
    runPc,              \* position of the full-sync call in flight
    snapshot,           \* local sql_items
    stats,              \* local stats of the run
    task,               \* per batch: position in the batch loop and local item
    sync_stats,         \* self._sync_stats
    started,            \* full syncs started so far
    lastRun,            \* how the last full sync ended, while nothing changed since
    rerun,              \* lastRun as it was when the run in flight began
    wroteQty,           \* the run in flight has written a quantity
    raced,              \* ... to a document an editor wrote after the run read it
    check,              \* the check_item_qty_realtime call in flight
    \* ---- the background loop of SQLSyncService
    enabled,            \* self.enabled
    running,            \* self._running
    loop_task,          \* self._task: the last task start() created
    loops,              \* state of each task running _sync_loop()
    sync_interval,      \* self.sync_interval
    calls,              \* calls of start/stop/enable/disable/set_interval so far
    lastCall,           \* the last of these calls
    stopCalled          \* stop() has been called

poolVars == <<pool_size, max_overflow, pool, checked_out, active_connections,
              lock, now, nextId, live, born>>
threadVars == <<pc, conn, created_at, deadline, caller, cm>>
syncVars == <<impl, batch_size, source, docs, runPc, snapshot, stats, task, sync_stats,
              started, lastRun, rerun, wroteQty, raced, check>>
loopVars == <<enabled, running, loop_task, loops, sync_interval, calls, lastCall,
              stopCalled>>
vars == <<poolVars, threadVars, syncVars, loopVars>>

\* ------------------------------------------------------------ pool helpers
Capacity == pool_size + max_overflow

\* Queue(maxsize=pool_size + max_overflow): maxsize <= 0 means unbounded
QueueFull == Capacity > 0 /\ Len(pool) >= Capacity

\* a limit test that admits one connection too many
UnderLimit_OffByOne == active_connections <= pool_size + max_overflow

\* connection_pool.py:173
UnderLimit == active_connections < pool_size + max_overflow

\* connection_pool.py:140
NeedsRecycle(age) == Recycle # 0 /\ age > Recycle

\* connection_pool.py:196: the timestamp stored with a returned connection
ReturnTimestamp(c) == now

IdleConns == {pool[i].conn : i \in 1..Len(pool)}

Entry(c, ts) == [conn |-> c, ts |-> ts]

RECURSIVE InitialQueue(_)
InitialQueue(k) == IF k = 0 THEN <<>> ELSE Append(InitialQueue(k - 1), Entry(k, 0))

\* __init__ + _initialize_pool: pool_size connections are created and queued;
\* a failing creation ends the loop (the exception is logged, not raised), so
\* the pool may start with k < pool_size connections.
PoolInit ==
    /\ pool_size \in 1..MaxPoolSize
    /\ max_overflow \in 0..MaxOverflow
    /\ \E k \in 0..pool_size :
        /\ pool = InitialQueue(k)
        /\ active_connections = k
        /\ live = 1..k
        /\ nextId = k + 1
    /\ checked_out = {}
    /\ lock = NoThread
    /\ now = 0
    /\ born = [c \in Conns |-> 0]

ThreadInit ==
    /\ pc = [t \in Threads |-> "idle"]
    /\ conn = [t \in Threads |-> NoConn]
    /\ created_at = [t \in Threads |-> 0]
    /\ deadline = [t \in Threads |-> 0]
    /\ caller = [t \in Threads |-> "none"]
    /\ cm = [t \in Threads |-> "none"]

Goto(t, l) == pc' = [pc EXCEPT ![t] = l]

\* ------------------------------------------------------- _get_connection
\* line 162: deadline = time.time() + (timeout or self.timeout)
GetConnection_Begin(t) ==
    /\ pc[t] = "idle"
    /\ UNCHANGED <<syncVars, loopVars>>
    /\ Goto(t, "gc_loop")
    /\ deadline' = [deadline EXCEPT ![t] = now + Timeout]
    /\ UNCHANGED <<poolVars, conn, created_at, caller, cm>>

\* lines 164-170, 181: the loop test and self._pool.get_nowait()
GetConnection_TryPool(t) ==
    /\ pc[t] = "gc_loop"
    /\ UNCHANGED <<syncVars, loopVars>>
    /\ IF ~(now < deadline[t])
       THEN /\ Goto(t, "gc_timeout")
            /\ UNCHANGED <<pool, conn, created_at, deadline>>
       ELSE IF pool # <<>>
       THEN /\ pool' = Tail(pool)
            /\ conn' = [conn EXCEPT ![t] = Head(pool).conn]
            /\ created_at' = [created_at EXCEPT ![t] = Head(pool).ts]
            /\ deadline' = [deadline EXCEPT ![t] = 0]
            /\ Goto(t, "vr_check")
       ELSE /\ Goto(t, "gc_limit")
            /\ UNCHANGED <<pool, conn, created_at, deadline>>
    /\ UNCHANGED <<pool_size, max_overflow, checked_out, active_connections,
                   lock, now, nextId, live, born, caller, cm>>

\* lines 172-174: with self._lock: if under the limit, call
\* _create_and_track_connection() while still holding the lock
GetConnection_CheckLimit(t) ==
    /\ pc[t] = "gc_limit"
    /\ UNCHANGED <<syncVars, loopVars>>
    /\ UNCHANGED cm
    /\ lock = NoThread
    /\ IF UnderLimit
       THEN /\ lock' = t
            /\ Goto(t, "ct_create")
            /\ caller' = [caller EXCEPT ![t] = "overflow"]
            /\ deadline' = [deadline EXCEPT ![t] = 0]
       ELSE /\ lock' = NoThread
            /\ Goto(t, "gc_sleep")
            /\ UNCHANGED <<caller, deadline>>
    /\ UNCHANGED <<pool_size, max_overflow, pool, checked_out, active_connections,
                   now, nextId, live, born, conn, created_at>>

\* lines 177-179: time.sleep(wait_time); continue
GetConnection_Backoff(t) ==
    /\ pc[t] = "gc_sleep"
    /\ UNCHANGED <<syncVars, loopVars>>
    /\ Goto(t, "gc_loop")
    /\ UNCHANGED <<poolVars, conn, created_at, deadline, caller, cm>>

\* ------------------------------------------- _create_and_track_connection
\* a failed creation that leaves the with-block without releasing the lock
CreateConnection_KeepsLock(t) ==
    /\ pc[t] = "ct_create"
    /\ UNCHANGED <<syncVars, loopVars>>
    /\ \/ /\ nextId <= MaxConn
          /\ conn' = [conn EXCEPT ![t] = nextId]
          /\ nextId' = nextId + 1
          /\ live' = live \cup {nextId}
          /\ born' = [born EXCEPT ![nextId] = now]
          /\ Goto(t, "ct_track")
          /\ UNCHANGED lock
       \/ /\ conn' = [conn EXCEPT ![t] = NoConn]
          /\ Goto(t, "gc_error")
          /\ UNCHANGED <<lock, nextId, live, born>>
    /\ UNCHANGED <<pool_size, max_overflow, pool, checked_out, active_connections,
                   now, created_at, deadline, caller, cm>>

\* line 113: conn = self._create_connection(); pyodbc.connect may raise, and
\* the exception leaves every enclosing with-block (releasing a held lock)
CreateConnection(t) ==
    /\ pc[t] = "ct_create"
    /\ UNCHANGED <<syncVars, loopVars>>
    /\ \/ /\ nextId <= MaxConn
          /\ conn' = [conn EXCEPT ![t] = nextId]
          /\ nextId' = nextId + 1
          /\ live' = live \cup {nextId}
          /\ born' = [born EXCEPT ![nextId] = now]
          /\ Goto(t, "ct_track")
          /\ UNCHANGED lock
       \/ /\ conn' = [conn EXCEPT ![t] = NoConn]
          /\ lock' = IF lock = t THEN NoThread ELSE lock
          /\ Goto(t, "gc_error")
          /\ UNCHANGED <<nextId, live, born>>
    /\ UNCHANGED <<pool_size, max_overflow, pool, checked_out, active_connections,
                   now, created_at, deadline, caller, cm>>

\* lines 114-117: with self._lock: count and mark checked out.  self._lock is
\* a threading.Lock (not reentrant): it can be taken only when free.
TrackConnection(t) ==
    /\ pc[t] = "ct_track"
    /\ UNCHANGED <<syncVars, loopVars>>
    /\ lock = NoThread
    /\ active_connections' = active_connections + 1
    /\ checked_out' = checked_out \cup {conn[t]}
    /\ Goto(t, "gc_done")
    /\ UNCHANGED <<pool_size, max_overflow, pool, lock, now, nextId, live, born,
                   conn, created_at, deadline, caller, cm>>

\* ---------------------------------------------------- _discard_connection
\* lines 121-124: conn.close()
Discard_Close(t) ==
    /\ pc[t] = "dc_close"
    /\ UNCHANGED <<syncVars, loopVars>>
    /\ live' = live \ {conn[t]}
    /\ born' = [born EXCEPT ![conn[t]] = 0]
    /\ Goto(t, "dc_untrack")
    /\ UNCHANGED <<pool_size, max_overflow, pool, checked_out, active_connections,
                   lock, now, nextId, conn, created_at, deadline, caller, cm>>

\* a discard that forgets to count the connection out
Discard_Untrack_NoDecrement(t) ==
    /\ pc[t] = "dc_untrack"
    /\ UNCHANGED <<syncVars, loopVars>>
    /\ lock = NoThread
    /\ checked_out' = checked_out \ {conn[t]}
    /\ IF caller[t] = "refresh"
       THEN Goto(t, "ct_create")
       ELSE Goto(t, "rc_done")
    /\ UNCHANGED <<pool_size, max_overflow, pool, active_connections, lock, now, nextId,
                   live, born, conn, created_at, deadline, caller, cm>>

\* lines 126-130: with self._lock: untrack and decrement (never below 0)
Discard_Untrack(t) ==
    /\ pc[t] = "dc_untrack"
    /\ UNCHANGED <<syncVars, loopVars>>
    /\ lock = NoThread
    /\ checked_out' = checked_out \ {conn[t]}
    /\ active_connections' =
          IF active_connections > 0 THEN active_connections - 1 ELSE active_connections
    /\ IF caller[t] = "refresh"
       THEN Goto(t, "ct_create")
       ELSE Goto(t, "rc_done")
    /\ UNCHANGED <<pool_size, max_overflow, pool, lock, now, nextId, live, born,
                   conn, created_at, deadline, caller, cm>>

\* --------------------------------------------------- _validate_and_refresh
\* a validation that probes the connection and never looks at its age
ValidateAndRefresh_SkipsAgeTest(t) ==
    /\ pc[t] = "vr_check"
    /\ UNCHANGED <<syncVars, loopVars>>
    /\ UNCHANGED cm
    /\ \E valid \in BOOLEAN :
         IF valid
         THEN Goto(t, "vr_mark") /\ UNCHANGED caller
         ELSE Goto(t, "dc_close") /\ caller' = [caller EXCEPT ![t] = "refresh"]
    /\ created_at' = [created_at EXCEPT ![t] = 0]
    /\ UNCHANGED <<poolVars, conn, deadline>>

\* lines 137-149: age check against the queued timestamp, then the validity
\* probe (its answer is the environment's)
ValidateAndRefresh(t) ==
    /\ pc[t] = "vr_check"
    /\ UNCHANGED <<syncVars, loopVars>>
    /\ UNCHANGED cm
    /\ \/ /\ NeedsRecycle(now - created_at[t])
          /\ Goto(t, "dc_close")
          /\ caller' = [caller EXCEPT ![t] = "refresh"]
       \/ /\ ~NeedsRecycle(now - created_at[t])
          /\ \E valid \in BOOLEAN :
               IF valid
               THEN Goto(t, "vr_mark") /\ UNCHANGED caller
               ELSE Goto(t, "dc_close") /\ caller' = [caller EXCEPT ![t] = "refresh"]
    /\ created_at' = [created_at EXCEPT ![t] = 0]
    /\ UNCHANGED <<poolVars, conn, deadline>>

\* lines 152-154
MarkCheckedOut(t) ==
    /\ pc[t] = "vr_mark"
    /\ UNCHANGED <<syncVars, loopVars>>
    /\ lock = NoThread
    /\ checked_out' = checked_out \cup {conn[t]}
    /\ Goto(t, "gc_done")
    /\ UNCHANGED <<pool_size, max_overflow, pool, active_connections, lock, now,
                   nextId, live, born, conn, created_at, deadline, caller, cm>>

\* ------------------------------------------------------ _return_connection
ReturnConnection_Begin(t, c) ==
    /\ pc[t] = "idle"
    /\ UNCHANGED <<syncVars, loopVars>>
    /\ c \in 1..(nextId - 1)
    /\ conn' = [conn EXCEPT ![t] = c]
    /\ Goto(t, "rc_untrack")
    /\ UNCHANGED <<poolVars, created_at, deadline, caller, cm>>

\* a release that does not test whether the connection is checked out
ReturnConnection_Untrack_NoTest(t) ==
    /\ pc[t] = "rc_untrack"
    /\ UNCHANGED <<syncVars, loopVars>>
    /\ lock = NoThread
    /\ checked_out' = checked_out \ {conn[t]}
    /\ Goto(t, "rc_put")
    /\ UNCHANGED <<pool_size, max_overflow, pool, active_connections, lock, now,
                   nextId, live, born, conn, created_at, deadline, caller, cm>>

\* lines 187-191
ReturnConnection_Untrack(t) ==
    /\ pc[t] = "rc_untrack"
    /\ UNCHANGED <<syncVars, loopVars>>
    /\ lock = NoThread
    /\ IF conn[t] \notin checked_out
       THEN /\ Goto(t, "rc_noop")
            /\ UNCHANGED checked_out
       ELSE /\ checked_out' = checked_out \ {conn[t]}
            /\ Goto(t, "rc_put")
    /\ UNCHANGED <<pool_size, max_overflow, pool, active_connections, lock, now,
                   nextId, live, born, conn, created_at, deadline, caller, cm>>

\* lines 194-202
ReturnConnection_Put(t) ==
    /\ pc[t] = "rc_put"
    /\ UNCHANGED <<syncVars, loopVars>>
    /\ UNCHANGED cm
    /\ \E valid \in BOOLEAN :
         IF valid /\ ~QueueFull
         THEN /\ pool' = Append(pool, Entry(conn[t], ReturnTimestamp(conn[t])))
              /\ Goto(t, "rc_done")
              /\ UNCHANGED caller
         ELSE /\ Goto(t, "dc_close")
              /\ caller' = [caller EXCEPT ![t] = "return"]
              /\ UNCHANGED pool
    /\ UNCHANGED <<pool_size, max_overflow, checked_out, active_connections, lock,
                   now, nextId, live, born, conn, created_at, deadline>>

\* ---------------------------------------------------------------- close_all
CloseAll_Begin(t) ==
    /\ pc[t] = "idle"
    /\ UNCHANGED <<syncVars, loopVars>>
    /\ Goto(t, "ca_drain")
    /\ UNCHANGED <<poolVars, conn, created_at, deadline, caller, cm>>

\* lines 224-229
CloseAll_Drain(t) ==
    /\ pc[t] = "ca_drain"
    /\ UNCHANGED <<syncVars, loopVars>>
    /\ IF pool # <<>>
       THEN /\ pool' = Tail(pool)
            /\ live' = live \ {Head(pool).conn}
            /\ born' = [born EXCEPT ![Head(pool).conn] = 0]
            /\ UNCHANGED pc
       ELSE /\ Goto(t, "ca_clear")
            /\ UNCHANGED <<pool, live, born>>
    /\ UNCHANGED <<pool_size, max_overflow, checked_out, active_connections, lock,
                   now, nextId, conn, created_at, deadline, caller, cm>>

\* a close_all that resets the counter and forgets the checked-out table
CloseAll_Clear_KeepsTable(t) ==
    /\ pc[t] = "ca_clear"
    /\ UNCHANGED <<syncVars, loopVars>>
    /\ lock = NoThread
    /\ active_connections' = 0
    /\ Goto(t, "ca_done")
    /\ UNCHANGED <<pool_size, max_overflow, pool, checked_out, lock, now, nextId,
                   live, born, conn, created_at, deadline, caller, cm>>

\* lines 231-233
CloseAll_Clear(t) ==
    /\ pc[t] = "ca_clear"
    /\ UNCHANGED <<syncVars, loopVars>>
    /\ lock = NoThread
    /\ checked_out' = {}
    /\ active_connections' = 0
    /\ Goto(t, "ca_done")
    /\ UNCHANGED <<pool_size, max_overflow, pool, lock, now, nextId, live, born,
                   conn, created_at, deadline, caller, cm>>

\* the method returns (or its exception reaches the caller)
Results == {"gc_done", "gc_timeout", "gc_error", "rc_done", "rc_noop", "ca_done"}

Return(t) ==
    /\ pc[t] \in Results
    /\ cm[t] = "none"
    /\ UNCHANGED <<syncVars, loopVars>>
    /\ UNCHANGED cm
    /\ Goto(t, "idle")
    /\ conn' = [conn EXCEPT ![t] = NoConn]
    /\ created_at' = [created_at EXCEPT ![t] = 0]
    /\ deadline' = [deadline EXCEPT ![t] = 0]
    /\ caller' = [caller EXCEPT ![t] = "none"]
    /\ UNCHANGED poolVars

\* ------------------------------------------- get_connection (context manager)
\* lines 214-216: conn = None; conn = self._get_connection(timeout)
With_Enter(t) ==
    /\ pc[t] = "idle"
    /\ cm[t] = "none"
    /\ UNCHANGED <<syncVars, loopVars>>
    /\ cm' = [cm EXCEPT ![t] = "acquire"]
    /\ Goto(t, "gc_loop")
    /\ deadline' = [deadline EXCEPT ![t] = now + Timeout]
    /\ UNCHANGED <<poolVars, conn, created_at, caller>>

\* line 217: yield conn
With_Acquired(t) ==
    /\ cm[t] = "acquire"
    /\ pc[t] = "gc_done"
    /\ UNCHANGED <<syncVars, loopVars>>
    /\ cm' = [cm EXCEPT ![t] = "body"]
    /\ Goto(t, "with_body")
    /\ caller' = [caller EXCEPT ![t] = "none"]
    /\ UNCHANGED <<poolVars, conn, created_at, deadline>>

\* lines 218-220: _get_connection raised, conn is still None: nothing to return
With_AcquireFailed(t) ==
    /\ cm[t] = "acquire"
    /\ pc[t] \in {"gc_timeout", "gc_error"}
    /\ UNCHANGED <<syncVars, loopVars>>
    /\ cm' = [cm EXCEPT ![t] = "none"]
    /\ Goto(t, "idle")
    /\ conn' = [conn EXCEPT ![t] = NoConn]
    /\ created_at' = [created_at EXCEPT ![t] = 0]
    /\ deadline' = [deadline EXCEPT ![t] = 0]
    /\ caller' = [caller EXCEPT ![t] = "none"]
    /\ UNCHANGED poolVars

\* a block whose release is skipped when its body raises
With_BodyEnds_NoFinally(t) ==
    /\ cm[t] = "body"
    /\ pc[t] = "with_body"
    /\ UNCHANGED <<syncVars, loopVars>>
    /\ \E raised \in BOOLEAN :
         IF raised
         THEN /\ cm' = [cm EXCEPT ![t] = "none"]
              /\ Goto(t, "idle")
              /\ conn' = [conn EXCEPT ![t] = NoConn]
         ELSE /\ cm' = [cm EXCEPT ![t] = "exit"]
              /\ Goto(t, "rc_untrack")
              /\ UNCHANGED conn
    /\ UNCHANGED <<poolVars, created_at, deadline, caller>>

\* lines 217-220: the body of the with-block ends, normally or with an
\* exception; the finally clause calls _return_connection(conn)
With_BodyEnds(t) ==
    /\ cm[t] = "body"
    /\ pc[t] = "with_body"
    /\ UNCHANGED <<syncVars, loopVars>>
    /\ \E raised \in BOOLEAN :
         cm' = [cm EXCEPT ![t] = IF raised THEN "exit_raised" ELSE "exit"]
    /\ Goto(t, "rc_untrack")
    /\ UNCHANGED <<poolVars, conn, created_at, deadline, caller>>

\* _return_connection has returned: the block is left (the body's exception,
\* if any, goes on to the caller)
With_Exit(t) ==
    /\ cm[t] \in {"exit", "exit_raised"}
    /\ pc[t] \in {"rc_done", "rc_noop"}
    /\ UNCHANGED <<syncVars, loopVars>>
    /\ cm' = [cm EXCEPT ![t] = "none"]
    /\ Goto(t, "idle")
    /\ conn' = [conn EXCEPT ![t] = NoConn]
    /\ created_at' = [created_at EXCEPT ![t] = 0]
    /\ deadline' = [deadline EXCEPT ![t] = 0]
    /\ caller' = [caller EXCEPT ![t] = "none"]
    /\ UNCHANGED poolVars

\* the clock advances
Tick ==
    /\ now < MaxTime
    /\ UNCHANGED <<syncVars, loopVars>>
    /\ now' = now + 1
    /\ UNCHANGED <<pool_size, max_overflow, pool, checked_out, active_connections,
                   lock, nextId, live, born, threadVars>>

ThreadStep(t) ==
    \/ GetConnection_Begin(t)
    \/ GetConnection_TryPool(t)
    \/ GetConnection_CheckLimit(t)
    \/ GetConnection_Backoff(t)
    \/ CreateConnection(t)
    \/ TrackConnection(t)
    \/ Discard_Close(t)
    \/ Discard_Untrack(t)
    \/ ValidateAndRefresh(t)
    \/ MarkCheckedOut(t)
    \/ \E c \in Conns : ReturnConnection_Begin(t, c)
    \/ ReturnConnection_Untrack(t)
    \/ ReturnConnection_Put(t)
    \/ CloseAll_Begin(t)
    \/ CloseAll_Drain(t)
    \/ CloseAll_Clear(t)
    \/ Return(t)

PoolNext == Tick \/ \E t \in Threads : ThreadStep(t)

\* ================================================================ sync engine
\* RawRecord as returned by the relational connector (the fields the sync reads):
\* the relational store carries an MRP for item 2 and none for the others
SrcRecords ==
    [key : {1}, qty : Qtys, mrp : {Absent}] \cup
    {[key |-> 2, qty |-> 2, mrp |-> 50], [key |-> EmptyKey, qty |-> 0, mrp |-> Absent]}

Snapshots == UNION {[1..n -> SrcRecords] : n \in 0..MaxItems}

\* the document fields the model tracks; every other field of a write is applied
\* to nothing the model observes
Fields == {"stock_qty", "sql_server_qty", "qty_change_delta", "mrp", "serial_number"}

\* the enrichment fields (owned by the editors) and the fields the sync owns
EnrichmentFields == {"serial_number", "mrp", "hsn_code", "location", "condition",
                     "verified", "verified_by", "verified_at", "verification_status"}

SyncFields == {"stock_qty", "sql_server_qty", "last_synced", "qty_changed",
               "qty_change_detected_at", "qty_changed_at", "qty_change_delta",
               "updated_at"}

NoDoc == [f \in Fields |-> Absent]

Exists(k) == docs[k] # NoDoc

\* dict.get(field, default)
Get(doc, f, default) == IF doc[f] = Absent THEN default ELSE doc[f]

Abs(x) == IF x < 0 THEN -x ELSE x

\* replace_one(..., set): the document becomes the written fields
Merge_Replace(doc, set) == [f \in Fields |-> IF f \in DOMAIN set THEN set[f] ELSE Absent]

\* update_one(..., {"$set": set}): a field-level merge
Merge(doc, set) == [f \in Fields |-> IF f \in DOMAIN set THEN set[f] ELSE doc[f]]

\* insert_one(new): the tracked part of the new document
Stored(new) == [f \in Fields |-> IF f \in DOMAIN new THEN new[f] ELSE Absent]

\* ---- erp_sync_service.py
\* line 144
ErpOldQty(existing) ==
    Get(existing, "sql_server_qty", Get(existing, "stock_qty", 0))

\* a change test with twice the tolerance
ErpChanged_WideTolerance(sql_qty, old_qty) == Abs(sql_qty - old_qty) > 2 * Eps

\* line 147
ErpChanged(sql_qty, old_qty) == Abs(sql_qty - old_qty) > Eps

\* lines 151-157
ErpUpdateSet(sql_qty) ==
    [sql_server_qty |-> sql_qty,
     stock_qty |-> sql_qty,
     last_synced |-> "utcnow",
     qty_changed |-> TRUE,
     qty_change_detected_at |-> "utcnow"]

\* lines 171-202
ErpNewItem(item_code, sql_item, sql_qty) ==
    [item_code |-> item_code,
     sql_server_qty |-> sql_qty,
     stock_qty |-> sql_qty,
     serial_number |-> NoneVal,
     mrp |-> Get(sql_item, "mrp", 0),
     hsn_code |-> NoneVal,
     location |-> NoneVal,
     condition |-> NoneVal,
     synced_at |-> "utcnow",
     last_synced |-> "utcnow",
     synced_from_sql |-> TRUE,
     created_at |-> "utcnow",
     data_complete |-> FALSE,
     verified |-> FALSE,
     verified_by |-> NoneVal,
     verified_at |-> NoneVal,
     verification_status |-> "pending"]

\* ---- sql_sync_service.py
\* line 134
SqlOldQty(mongo_item) == Get(mongo_item, "stock_qty", 0)

\* line 136
SqlChanged(sql_qty, mongo_qty) == sql_qty # mongo_qty

\* lines 141-150
SqlUpdateSet(sql_qty, mongo_qty) ==
    [stock_qty |-> sql_qty,
     sql_server_qty |-> sql_qty,
     last_synced |-> "utcnow",
     qty_changed_at |-> "utcnow",
     qty_change_delta |-> sql_qty - mongo_qty,
     updated_at |-> "utcnow"]

\* line 168
SqlTouchSet == [last_synced |-> "utcnow"]

\* lines 97-126
SqlNewItem(item_code, sql_item, sql_qty) ==
    [item_code |-> item_code,
     stock_qty |-> sql_qty,
     sql_server_qty |-> sql_qty,
     serial_number |-> NoneVal,
     mrp |-> NoneVal,
     hsn_code |-> NoneVal,
     location |-> NoneVal,
     condition |-> NoneVal,
     data_complete |-> FALSE,
     last_synced |-> "utcnow",
     qty_changed_at |-> NoneVal,
     created_at |-> "utcnow",
     updated_at |-> "utcnow",
     synced_from_sql |-> TRUE]

\* ---- the write an item leads to, from the document read for it
OldQty(existing) == IF impl = "erp" THEN ErpOldQty(existing) ELSE SqlOldQty(existing)

Changed_Always(sql_qty, old_qty) == TRUE

Changed(sql_qty, old_qty) ==
    IF impl = "erp" THEN ErpChanged(sql_qty, old_qty) ELSE SqlChanged(sql_qty, old_qty)

UpdateSet(sql_qty, old_qty) ==
    IF impl = "erp" THEN ErpUpdateSet(sql_qty) ELSE SqlUpdateSet(sql_qty, old_qty)

NewItem(item_code, sql_item, sql_qty) ==
    IF impl = "erp" THEN ErpNewItem(item_code, sql_item, sql_qty)
    ELSE SqlNewItem(item_code, sql_item, sql_qty)

\* "insert", "update", "touch" (timestamp only) or "none" (no write at all)
WriteKind(existing, sql_qty) ==
    IF existing = NoDoc THEN "insert"
    ELSE IF Changed(sql_qty, OldQty(existing)) THEN "update"
    ELSE IF impl = "erp" THEN "none" ELSE "touch"

\* ---- batches
NumBatches(n) == (n + batch_size - 1) \div batch_size
FirstOf(b) == (b - 1) * batch_size + 1
LastOf(b, n) == IF b * batch_size < n THEN b * batch_size ELSE n

ZeroStats ==
    [items_checked |-> 0, items_updated |-> 0, qty_updated |-> 0,
     items_unchanged |-> 0, items_created |-> 0, qty_changes_detected |-> 0,
     errors |-> 0]

ZeroSyncStats ==
    [total_syncs |-> 0, successful_syncs |-> 0, failed_syncs |-> 0,
     items_synced |-> 0, qty_changes_detected |-> 0]

NoTasks == <<>>

NewTask(b) == [st |-> "wait", pos |-> FirstOf(b), existing |-> NoDoc]

Item(b) == snapshot[task[b].pos]

Bump(s, f) == [s EXCEPT ![f] = @ + 1]

\* the batch loop moves to its next item, or ends
Advance(b) ==
    IF task[b].pos < LastOf(b, Len(snapshot))
    THEN [task EXCEPT ![b] = [st |-> "find", pos |-> @.pos + 1, existing |-> NoDoc]]
    ELSE [task EXCEPT ![b] = [st |-> "done", pos |-> @.pos + 1, existing |-> NoDoc]]

\* documents as earlier writers left them: the two quantity fields need not agree
\* (refresh_stock_from_erp sets stock_qty alone), sql_server_qty may be missing
Doc(a, b) ==
    [stock_qty |-> a, sql_server_qty |-> b, qty_change_delta |-> Absent,
     mrp |-> NoneVal, serial_number |-> NoneVal]

StoredDocs(k) ==
    CASE k = 1 -> {NoDoc} \cup {Doc(a, b) : a \in Qtys, b \in Qtys \cup {Absent}}
      [] k = 2 -> {NoDoc, Doc(0, 0), Doc(2, 2)}
      [] OTHER -> {NoDoc}

InitialStores == {d \in [Keys -> {NoDoc} \cup {Doc(a, b) : a \in Qtys, b \in Qtys \cup {Absent}}] :
                    \A k \in Keys : d[k] \in StoredDocs(k)}

NoCheck == [pc |-> "idle", key |-> EmptyKey, sql_qty |-> NoneVal, result |-> NoneVal]

\* =========================================================== background loop
\* the task of a background loop: "none" before start() creates it, "ready"
\* created and not yet run, "sleep" in asyncio.sleep(sync_interval), "run" inside
\* its sync call, "cancelling" / "cancelling_run" cancel() requested while it
\* slept / ran and CancelledError not yet raised in it, "cancelled", "done"
LoopIds == 1..MaxTasks

Alive(i) == loops[i] \in {"ready", "sleep", "run"}

Pending(i) == loops[i] \in {"cancelling", "cancelling_run"}

FreeIds == {i \in LoopIds : loops[i] = "none"}

NewId == IF FreeIds = {} THEN MaxTasks
         ELSE CHOOSE i \in FreeIds : \A j \in FreeIds : i <= j

\* the default of the sync_interval parameter: erp line 28, sql line 33
DefaultInterval == IF impl = "erp" THEN 3600 ELSE 900

\* __init__: erp lines 24-44, sql lines 29-50
LoopInit ==
    /\ enabled \in BOOLEAN
    /\ running = FALSE
    /\ loop_task = NoTask
    /\ loops = [i \in LoopIds |-> "none"]
    /\ sync_interval = DefaultInterval
    /\ calls = 0
    /\ lastCall = "none"
    /\ stopCalled = FALSE

\* the service with no background loop, for the other specifications
LoopOff ==
    /\ enabled = TRUE
    /\ running = FALSE
    /\ loop_task = NoTask
    /\ loops = [i \in LoopIds |-> "none"]
    /\ sync_interval = 900
    /\ calls = 0
    /\ lastCall = "none"
    /\ stopCalled = FALSE

\* __init__ of the service, and the stores as the service finds them: documents
\* written by earlier syncs (both quantity fields equal, enrichment not yet entered)
SyncInit ==
    /\ impl \in {"erp", "sql"}
    /\ source \in Snapshots
    /\ docs \in InitialStores
    /\ batch_size \in 1..MaxItems
    /\ runPc = "idle"
    /\ snapshot = <<>>
    /\ stats = ZeroStats
    /\ task = NoTasks
    /\ sync_stats = ZeroSyncStats
    /\ started = 0
    /\ lastRun = "none"
    /\ rerun = "none"
    /\ wroteQty = FALSE
    /\ raced = FALSE
    /\ check = NoCheck

\* the sync engine at rest, for the specifications of the pool alone
SyncOff ==
    /\ impl = "erp"
    /\ source = <<>>
    /\ docs = [k \in Keys |-> NoDoc]
    /\ batch_size = 1
    /\ runPc = "idle"
    /\ snapshot = <<>>
    /\ stats = ZeroStats
    /\ task = NoTasks
    /\ sync_stats = ZeroSyncStats
    /\ started = 0
    /\ lastRun = "none"
    /\ rerun = "none"
    /\ wroteQty = FALSE
    /\ raced = FALSE
    /\ check = NoCheck

\* the pool at rest, for the specifications of the sync engine alone
PoolOff ==
    /\ pool_size = 1
    /\ max_overflow = 0
    /\ pool = <<>>
    /\ checked_out = {}
    /\ active_connections = 0
    /\ lock = NoThread
    /\ now = 0
    /\ nextId = 1
    /\ live = {}
    /\ born = [c \in Conns |-> 0]

\* ---- sync_items (erp) / sync_quantities_only (sql)
\* a fetch failure swallowed: the empty statistics are returned
BeginResult_Silent(outcome) ==
    CASE outcome = "unavailable" -> "raised_unavailable"
      [] outcome = "fetch_failed" -> "done"
      [] OTHER -> "running"

\* erp lines 53-54 and 102-111, sql lines 60-63 and 207-211: where the call is
\* after test_connection() and get_all_items()
BeginResult(outcome) ==
    CASE outcome = "unavailable" -> "raised_unavailable"
      [] outcome = "fetch_failed" -> "raised_fetch"
      [] OTHER -> "running"

\* erp lines 53-69, sql lines 60-78: test_connection(), then get_all_items()
Sync_Begin ==
    /\ runPc = "idle"
    /\ started < MaxRuns
    /\ started' = started + 1
    /\ \E outcome \in {"unavailable", "fetch_failed", "fetched"} :
         CASE outcome = "unavailable" ->
                \* raise SQLServerConnectionError, before the try block
                /\ runPc' = BeginResult(outcome)
                /\ UNCHANGED <<snapshot, task, sync_stats, rerun, stats>>
           [] outcome = "fetch_failed" ->
                \* get_all_items() raises: erp line 104-111, sql line 207-211
                /\ runPc' = BeginResult(outcome)
                /\ sync_stats' = Bump(sync_stats, "failed_syncs")
                /\ stats' = IF impl = "sql" THEN [stats EXCEPT !.errors = 1] ELSE stats
                /\ UNCHANGED <<snapshot, task, rerun>>
           [] outcome = "fetched" ->
                /\ runPc' = BeginResult(outcome)
                /\ snapshot' = source
                /\ task' = [b \in 1..NumBatches(Len(source)) |-> NewTask(b)]
                /\ rerun' = lastRun
                /\ UNCHANGED <<sync_stats, stats>>
    /\ UNCHANGED <<impl, batch_size, source, docs, lastRun, wroteQty, raced, check>>
    /\ UNCHANGED <<poolVars, threadVars, loopVars>>

\* the batches inside `async with semaphore` (erp), inside the for loop (sql)
ActiveBatches == {c \in DOMAIN task : task[c].st \notin {"wait", "done"}}

\* a semaphore that admits every batch
SemaphoreFree_Unbounded == TRUE

\* erp lines 82-85: asyncio.Semaphore(max_concurrent_batches) has a free slot
SemaphoreFree == Cardinality(ActiveBatches) < MaxConcurrentBatches

\* erp lines 82-89: a batch enters `async with semaphore`;
\* sql lines 82-83: the for loop reaches the batch
Batch_Start(b) ==
    /\ runPc = "running"
    /\ b \in DOMAIN task
    /\ task[b].st = "wait"
    /\ IF impl = "erp"
       THEN SemaphoreFree
       ELSE \A c \in DOMAIN task : c < b => task[c].st = "done"
    /\ task' = [task EXCEPT ![b].st = "find"]
    /\ UNCHANGED <<impl, batch_size, source, docs, runPc, snapshot, stats, sync_stats, started,
                   lastRun, rerun, wroteQty, raced, check>>
    /\ UNCHANGED <<poolVars, threadVars, loopVars>>

\* erp lines 125-138, 144-147, 164-165; sql lines 87-95, 134-136:
\* the item's document is read and the write is decided
Item_Find(b) ==
    /\ runPc = "running"
    /\ b \in DOMAIN task
    /\ task[b].st = "find"
    /\ IF impl = "erp" /\ Item(b).key = EmptyKey
       THEN \* erp lines 126-128
            /\ stats' = Bump(stats, "errors")
            /\ task' = Advance(b)
       ELSE \/ \* find_one raises
               /\ task' = [task EXCEPT ![b].st = "except"]
               /\ UNCHANGED stats
            \/ LET existing == docs[Item(b).key]
                   kind == WriteKind(existing, Item(b).qty)
                   seen == [task EXCEPT ![b].existing = existing]
               IN  IF impl = "erp"
                   THEN IF kind = "none"
                        THEN /\ stats' = Bump(Bump(stats, "items_checked"), "items_unchanged")
                             /\ task' = Advance(b)
                        ELSE /\ stats' = Bump(stats, "items_checked")
                             /\ task' = [seen EXCEPT ![b].st = "write"]
                   ELSE /\ task' = [seen EXCEPT ![b].st = "write"]
                        /\ UNCHANGED stats
    /\ UNCHANGED <<impl, batch_size, source, docs, runPc, snapshot, sync_stats, started,
                   lastRun, rerun, wroteQty, raced, check>>
    /\ UNCHANGED <<poolVars, threadVars, loopVars>>

\* the document after the write decided for sql_item = (k, q) from `existing`
Written(doc, existing, k, q, sql_item) ==
    CASE WriteKind(existing, q) = "insert" ->
            \* a second document of the same code does not replace the first,
            \* which find_one and update_one keep addressing
            IF doc = NoDoc THEN Stored(NewItem(k, sql_item, q)) ELSE doc
      [] WriteKind(existing, q) = "update" ->
            IF doc = NoDoc THEN doc ELSE Merge(doc, UpdateSet(q, OldQty(existing)))
      [] WriteKind(existing, q) = "touch" ->
            IF doc = NoDoc THEN doc ELSE Merge(doc, SqlTouchSet)
      [] OTHER -> doc

\* the counters after a write that went through
Counted(s, kind, matched) ==
    IF impl = "erp"
    THEN CASE kind = "insert" -> Bump(s, "items_created")
           [] kind = "update" -> IF matched THEN Bump(s, "items_updated") ELSE s
           [] OTHER -> s
    ELSE CASE kind = "insert" -> Bump(Bump(s, "items_created"), "items_checked")
           [] kind = "update" ->
                Bump(Bump(Bump(s, "qty_changes_detected"), "qty_updated"), "items_checked")
           [] OTHER -> Bump(s, "items_checked")

\* erp lines 148-162, 204-205; sql lines 128-129, 138-157, 166-171:
\* the awaited insert_one / update_one and the counting that follows it
Item_Write(b) ==
    /\ runPc = "running"
    /\ b \in DOMAIN task
    /\ task[b].st = "write"
    /\ \/ \* the store call raises
          /\ task' = [task EXCEPT ![b].st = "except", ![b].existing = NoDoc]
          /\ UNCHANGED <<docs, stats, wroteQty, raced>>
       \/ LET k == Item(b).key
              q == Item(b).qty
              kind == WriteKind(task[b].existing, q)
          IN  /\ docs' = [docs EXCEPT ![k] = Written(docs[k], task[b].existing, k, q, Item(b))]
              /\ stats' = Counted(stats, kind, docs[k] # NoDoc)
              /\ wroteQty' = (wroteQty \/ (kind = "update" /\ docs[k] # NoDoc))
              /\ raced' = (raced \/ (kind = "update" /\ docs[k] # NoDoc
                                      /\ docs[k].mrp # task[b].existing.mrp))
              /\ task' = Advance(b)
    /\ UNCHANGED <<impl, batch_size, source, runPc, snapshot, sync_stats, started, lastRun, rerun, check>>
    /\ UNCHANGED <<poolVars, threadVars, loopVars>>

\* an except block outside the for loop
Item_Except_EndsBatch(b) ==
    /\ runPc = "running"
    /\ b \in DOMAIN task
    /\ task[b].st = "except"
    /\ stats' = Bump(stats, "errors")
    /\ task' = [task EXCEPT ![b] = [st |-> "done", pos |-> @.pos + 1, existing |-> NoDoc]]
    /\ UNCHANGED <<impl, batch_size, source, docs, runPc, snapshot, sync_stats, started,
                   lastRun, rerun, wroteQty, raced, check>>
    /\ UNCHANGED <<poolVars, threadVars, loopVars>>

\* erp lines 118-121, sql lines 173-175: the per-item except block
Item_Except(b) ==
    /\ runPc = "running"
    /\ b \in DOMAIN task
    /\ task[b].st = "except"
    /\ stats' = Bump(stats, "errors")
    /\ task' = Advance(b)
    /\ UNCHANGED <<impl, batch_size, source, docs, runPc, snapshot, sync_stats, started,
                   lastRun, rerun, wroteQty, raced, check>>
    /\ UNCHANGED <<poolVars, threadVars, loopVars>>

\* _update_sync_stats, erp lines 208-215
ErpFinished(ss, st) ==
    [ss EXCEPT !.total_syncs = @ + 1,
               !.successful_syncs = @ + 1,
               !.items_synced = st.items_checked]

\* sql lines 177-182
SqlFinished(ss, st) ==
    [ss EXCEPT !.successful_syncs = @ + 1,
               !.items_synced = st.items_checked,
               !.qty_changes_detected = st.qty_changes_detected]

\* sql lines 177-182, then 207-211 when the metadata upsert raises
SqlUpsertFailed(ss, st) == Bump(SqlFinished(ss, st), "failed_syncs")

\* erp lines 91-100 with _update_sync_stats (208-215);
\* sql lines 177-211: the statistics, then the awaited metadata upsert
Sync_Finish ==
    /\ runPc = "running"
    /\ \A b \in DOMAIN task : task[b].st = "done"
    /\ IF impl = "erp"
       THEN /\ sync_stats' = ErpFinished(sync_stats, stats)
            /\ runPc' = "done"
            /\ UNCHANGED stats
       ELSE \E upserted \in BOOLEAN :
              IF upserted
              THEN /\ sync_stats' = SqlFinished(sync_stats, stats)
                   /\ runPc' = "done"
                   /\ UNCHANGED stats
              ELSE /\ sync_stats' = SqlUpsertFailed(sync_stats, stats)
                   /\ stats' = [stats EXCEPT !.errors = 1]
                   /\ runPc' = "raised_metadata"
    /\ lastRun' = IF runPc' # "done" THEN "none"
                  ELSE IF stats.errors = 0 THEN "clean" ELSE "errors"
    /\ UNCHANGED <<impl, batch_size, source, docs, snapshot, task, started, rerun, wroteQty, raced, check>>
    /\ UNCHANGED <<poolVars, threadVars, loopVars>>

RunResults == {"done", "raised_unavailable", "raised_fetch", "raised_metadata"}

\* the caller has the result (or the exception)
Sync_Return ==
    /\ runPc \in RunResults
    /\ runPc' = "idle"
    /\ snapshot' = <<>>
    /\ stats' = ZeroStats
    /\ task' = NoTasks
    /\ rerun' = "none"
    /\ wroteQty' = FALSE
    /\ raced' = FALSE
    /\ UNCHANGED <<impl, batch_size, source, docs, sync_stats, started, lastRun, check>>
    /\ UNCHANGED <<poolVars, threadVars, loopVars>>

\* the documents the editors work on
Edited == {1}

\* an editor enters an enrichment field of an existing document
Editor_Write(k, f) ==
    /\ Exists(k)
    /\ docs[k][f] # 100
    /\ docs' = [docs EXCEPT ![k][f] = 100]
    /\ UNCHANGED <<impl, batch_size, source, runPc, snapshot, stats, task, sync_stats, started,
                   lastRun, rerun, wroteQty, raced, check>>
    /\ UNCHANGED <<poolVars, threadVars, loopVars>>

\* ---- check_item_qty_realtime (sql_sync_service.py)
\* lines 229-235
CachedResult_OtherField(mongo_item) ==
    [sql_qty |-> Get(mongo_item, "sql_server_qty", NoneVal),
     updated |-> FALSE,
     source |-> "mongodb_cache"]

CachedResult(mongo_item) ==
    [sql_qty |-> Get(mongo_item, "stock_qty", NoneVal),
     updated |-> FALSE,
     source |-> "mongodb_cache"]

\* lines 252-258 and 295-301
UnchangedResult(sql_qty) ==
    [sql_qty |-> sql_qty, updated |-> FALSE, source |-> "sql_server"]

\* lines 280-288
UpdatedResult(sql_qty, mongo_qty) ==
    [sql_qty |-> sql_qty, previous_qty |-> mongo_qty, delta |-> sql_qty - mongo_qty,
     updated |-> TRUE, source |-> "sql_server"]

\* an update that also resets an enrichment field
CheckUpdateSet_ResetsMrp(sql_qty, mongo_qty) ==
    [stock_qty |-> sql_qty,
     sql_server_qty |-> sql_qty,
     mrp |-> NoneVal,
     last_checked |-> "utcnow",
     qty_changed_at |-> "utcnow",
     qty_change_delta |-> sql_qty - mongo_qty]

\* lines 268-274
CheckUpdateSet(sql_qty, mongo_qty) ==
    [stock_qty |-> sql_qty,
     sql_server_qty |-> sql_qty,
     last_checked |-> "utcnow",
     qty_changed_at |-> "utcnow",
     qty_change_delta |-> sql_qty - mongo_qty]

\* line 292
CheckTouchSet == [last_checked |-> "utcnow"]

\* lines 224-245: test_connection(), then get_item_by_code() when it answers
Check_Begin(k) ==
    /\ check.pc = "idle"
    /\ \/ \* the source is unreachable
          check' = [check EXCEPT !.pc = "cache_find", !.key = k]
       \/ \* get_item_by_code raises
          check' = [check EXCEPT !.pc = "raised", !.key = k]
       \/ \* the source has no such item
          check' = [check EXCEPT !.pc = "raised_not_found", !.key = k]
       \/ \E q \in Qtys :
            check' = [check EXCEPT !.pc = "find", !.key = k, !.sql_qty = q]
    /\ UNCHANGED <<impl, batch_size, source, docs, runPc, snapshot, stats, task,
                   sync_stats, started, lastRun, rerun, wroteQty, raced>>
    /\ UNCHANGED <<poolVars, threadVars, loopVars>>

\* lines 226-237: the source did not answer
Check_CacheFind ==
    /\ check.pc = "cache_find"
    /\ \/ \* find_one raises
          check' = [check EXCEPT !.pc = "raised"]
       \/ IF Exists(check.key)
          THEN check' = [check EXCEPT !.pc = "returned",
                                      !.result = CachedResult(docs[check.key])]
          ELSE check' = [check EXCEPT !.pc = "raised_not_found"]
    /\ UNCHANGED <<impl, batch_size, source, docs, runPc, snapshot, stats, task,
                   sync_stats, started, lastRun, rerun, wroteQty, raced>>
    /\ UNCHANGED <<poolVars, threadVars, loopVars>>

\* lines 247-263: the document is read and the write is decided
Check_Find ==
    /\ check.pc = "find"
    /\ \/ \* find_one raises
          check' = [check EXCEPT !.pc = "raised"]
       \/ IF ~Exists(check.key)
          THEN check' = [check EXCEPT !.pc = "returned",
                                      !.result = UnchangedResult(check.sql_qty)]
          ELSE LET mongo_qty == SqlOldQty(docs[check.key])
               IN  IF check.sql_qty # mongo_qty
                   THEN check' = [check EXCEPT !.pc = "update",
                                               !.result = mongo_qty]
                   ELSE check' = [check EXCEPT !.pc = "touch"]
    /\ UNCHANGED <<impl, batch_size, source, docs, runPc, snapshot, stats, task,
                   sync_stats, started, lastRun, rerun, wroteQty, raced>>
    /\ UNCHANGED <<poolVars, threadVars, loopVars>>

\* lines 265-301: the awaited update_one, then the result
Check_Write ==
    /\ check.pc \in {"update", "touch"}
    /\ \/ \* update_one raises
          /\ check' = [check EXCEPT !.pc = "raised", !.result = NoneVal]
          /\ UNCHANGED docs
       \/ LET k == check.key
              set == IF check.pc = "update"
                     THEN CheckUpdateSet(check.sql_qty, check.result)
                     ELSE CheckTouchSet
          IN  /\ docs' = [docs EXCEPT ![k] = IF @ = NoDoc THEN @ ELSE Merge(@, set)]
              /\ check' = [check EXCEPT
                              !.pc = "returned",
                              !.result = IF check.pc = "update"
                                         THEN UpdatedResult(check.sql_qty, check.result)
                                         ELSE UnchangedResult(check.sql_qty)]
    /\ UNCHANGED <<impl, batch_size, source, runPc, snapshot, stats, task,
                   sync_stats, started, lastRun, rerun, wroteQty, raced>>
    /\ UNCHANGED <<poolVars, threadVars, loopVars>>

CheckResults == {"returned", "raised", "raised_not_found"}

\* the caller has the result (or the exception)
Check_Return ==
    /\ check.pc \in CheckResults
    /\ check' = NoCheck
    /\ UNCHANGED <<impl, batch_size, source, docs, runPc, snapshot, stats, task,
                   sync_stats, started, lastRun, rerun, wroteQty, raced>>
    /\ UNCHANGED <<poolVars, threadVars, loopVars>>

CheckNext ==
    \/ \E k \in Keys : Check_Begin(k)
    \/ Check_CacheFind
    \/ Check_Find
    \/ Check_Write
    \/ Check_Return
    \/ \E k \in Edited : Editor_Write(k, "mrp")

\* the service with no full sync in flight
CheckInit ==
    /\ impl = "sql"
    /\ batch_size = 1
    /\ source = <<>>
    /\ docs \in InitialStores
    /\ runPc = "idle"
    /\ snapshot = <<>>
    /\ stats = ZeroStats
    /\ task = NoTasks
    /\ sync_stats = ZeroSyncStats
    /\ started = 0
    /\ lastRun = "none"
    /\ rerun = "none"
    /\ wroteQty = FALSE
    /\ raced = FALSE
    /\ check = NoCheck

CheckInitAll == PoolOff /\ ThreadInit /\ CheckInit /\ LoopOff

\* single-item checks, one at a time, with an editor at work
CheckSpec == CheckInitAll /\ [][CheckNext]_vars

\* ---- a full sync beside another client of the document store
\* another client of erp_items removes a document: the case in which the
\* update_one of erp lines 148-159 matches nothing (result.modified_count = 0)
Store_Remove(k) ==
    /\ Exists(k)
    /\ docs' = [docs EXCEPT ![k] = NoDoc]
    /\ UNCHANGED <<impl, batch_size, source, runPc, snapshot, stats, task, sync_stats, started,
                   lastRun, rerun, wroteQty, raced, check>>
    /\ UNCHANGED <<poolVars, threadVars, loopVars>>

\* the erp service about to make one full sync
RemovalInit ==
    /\ impl = "erp"
    /\ source \in Snapshots
    /\ docs \in InitialStores
    /\ batch_size \in 1..MaxItems
    /\ runPc = "idle"
    /\ snapshot = <<>>
    /\ stats = ZeroStats
    /\ task = NoTasks
    /\ sync_stats = ZeroSyncStats
    /\ started = MaxRuns - 1
    /\ lastRun = "none"
    /\ rerun = "none"
    /\ wroteQty = FALSE
    /\ raced = FALSE
    /\ check = NoCheck

RemovalInitAll == PoolOff /\ ThreadInit /\ RemovalInit /\ LoopOff

RemovalNext ==
    \/ Sync_Begin
    \/ \E b \in 1..MaxItems : Batch_Start(b)
    \/ \E b \in 1..MaxItems : Item_Find(b)
    \/ \E b \in 1..MaxItems : Item_Write(b)
    \/ \E b \in 1..MaxItems : Item_Except(b)
    \/ Sync_Finish
    \/ Sync_Return
    \/ \E k \in Keys : Store_Remove(k)

\* one full sync of the erp service while documents may be removed
RemovalSpec == RemovalInitAll /\ [][RemovalNext]_vars

\* ---- full syncs of a source whose quantities move between the runs
\* the relational store changes the quantity of its item while no sync runs
\* (what the next get_all_items() of erp line 69, sql line 78 returns)
Source_Change(q) ==
    /\ runPc = "idle"
    /\ Len(source) = 1
    /\ q # source[1].qty
    /\ source' = <<[source[1] EXCEPT !.qty = q]>>
    /\ UNCHANGED <<impl, batch_size, docs, runPc, snapshot, stats, task, sync_stats, started,
                   lastRun, rerun, wroteQty, raced, check>>
    /\ UNCHANGED <<poolVars, threadVars, loopVars>>

\* either service, a source of one item and the documents earlier runs left
DriftInit ==
    /\ impl \in {"erp", "sql"}
    /\ source \in {<<[key |-> 1, qty |-> q, mrp |-> Absent]>> : q \in Qtys}
    /\ docs \in {d \in InitialStores : d[2] = NoDoc}
    /\ batch_size = 1
    /\ runPc = "idle"
    /\ snapshot = <<>>
    /\ stats = ZeroStats
    /\ task = NoTasks
    /\ sync_stats = ZeroSyncStats
    /\ started = 0
    /\ lastRun = "none"
    /\ rerun = "none"
    /\ wroteQty = FALSE
    /\ raced = FALSE
    /\ check = NoCheck

DriftInitAll == PoolOff /\ ThreadInit /\ DriftInit /\ LoopOff

DriftNext ==
    \/ Sync_Begin
    \/ \E b \in 1..MaxItems : Batch_Start(b)
    \/ \E b \in 1..MaxItems : Item_Find(b)
    \/ \E b \in 1..MaxItems : Item_Write(b)
    \/ \E b \in 1..MaxItems : Item_Except(b)
    \/ Sync_Finish
    \/ Sync_Return
    \/ \E q \in Qtys : Source_Change(q)

\* successive full syncs, the source quantity changing between them, and no
\* other writer of the documents
DriftSpec == DriftInitAll /\ [][DriftNext]_vars

\* ---- refresh_stock_from_erp (utils/erp_utils.py)
\* lines 229-245: item_data, the $set of the upsert (float(item.get("mrp", 0.0))
\* is 0.0 for a record without an MRP)
RefreshItemData(item) ==
    [item_code |-> item.key,
     item_name |-> "",
     barcode |-> "",
     stock_qty |-> item.qty,
     mrp |-> IF item.mrp = Absent THEN 0 ELSE item.mrp,
     category |-> "General",
     subcategory |-> "",
     warehouse |-> "Main",
     uom_code |-> "",
     uom_name |-> "",
     floor |-> "",
     rack |-> "",
     synced_at |-> "utcnow",
     synced_from_erp |-> TRUE,
     last_erp_update |-> "utcnow"]

\* lines 174-290 with the relational store configured and reachable and the
\* item found by its code (line 207): no await lies between the fetch and the
\* upsert of lines 248-252, which merges item_data into the document or
\* creates it.  The other branches (item not found, store unreachable, an
\* exception) write nothing.
RefreshStockFromErp(k) ==
    /\ check.pc = "idle"
    /\ runPc = "idle"
    /\ \E item \in {r \in SrcRecords : r.key = k} :
         docs' = [docs EXCEPT ![k] = Merge(@, RefreshItemData(item))]
    /\ UNCHANGED <<impl, batch_size, source, runPc, snapshot, stats, task, sync_stats, started,
                   lastRun, rerun, wroteQty, raced, check>>
    /\ UNCHANGED <<poolVars, threadVars, loopVars>>

RefreshNext ==
    \/ \E k \in Keys : RefreshStockFromErp(k)
    \/ \E k \in Keys : Editor_Write(k, "mrp")
    \/ \E k \in Keys : Editor_Write(k, "serial_number")

\* the documents under refreshes from the relational store, with editors at work
RefreshSpec == CheckInitAll /\ [][RefreshNext]_vars

SyncNext ==
    \/ Sync_Begin
    \/ \E b \in 1..MaxItems : Batch_Start(b)
    \/ \E b \in 1..MaxItems : Item_Find(b)
    \/ \E b \in 1..MaxItems : Item_Write(b)
    \/ \E b \in 1..MaxItems : Item_Except(b)
    \/ Sync_Finish
    \/ Sync_Return
    \/ \E k \in Edited : Editor_Write(k, "mrp")

SyncInitAll == PoolOff /\ ThreadInit /\ SyncInit /\ LoopOff

\* full syncs of one service, one at a time, with an editor at work
SyncSpec == SyncInitAll /\ [][SyncNext]_vars

\* ------------------------------------------- one full sync of many batches
\* a source of MaxBatches items, one item to a batch
BatchSource == [i \in 1..MaxBatches |-> [key |-> 1 + (i % 2), qty |-> 2, mrp |-> Absent]]

\* the stores the run works on
BatchStores ==
    {[k \in Keys |-> NoDoc], [k \in Keys |-> IF k = 1 THEN Doc(0, 0) ELSE NoDoc]}

BatchInit ==
    /\ impl \in {"erp", "sql"}
    /\ source = BatchSource
    /\ docs \in BatchStores
    /\ batch_size = 1
    /\ runPc = "idle"
    /\ snapshot = <<>>
    /\ stats = ZeroStats
    /\ task = NoTasks
    /\ sync_stats = ZeroSyncStats
    /\ started = MaxRuns - 1
    /\ lastRun = "none"
    /\ rerun = "none"
    /\ wroteQty = FALSE
    /\ raced = FALSE
    /\ check = NoCheck

BatchInitAll == PoolOff /\ ThreadInit /\ BatchInit /\ LoopOff

BatchNext ==
    \/ Sync_Begin
    \/ \E b \in 1..MaxBatches : Batch_Start(b)
    \/ \E b \in 1..MaxBatches : Item_Find(b)
    \/ \E b \in 1..MaxBatches : Item_Write(b)
    \/ \E b \in 1..MaxBatches : Item_Except(b)
    \/ Sync_Finish
    \/ Sync_Return

\* one full sync over more batches than the semaphore admits; the event loop
\* resumes every coroutine whose awaited call has completed
BatchSpec == BatchInitAll /\ [][BatchNext]_vars /\ WF_vars(BatchNext)

\* ------------------------------------------------- background loop: steps
\* the local variables of a full-sync call that is over
RunReset ==
    /\ runPc' = "idle"
    /\ snapshot' = <<>>
    /\ stats' = ZeroStats
    /\ task' = NoTasks
    /\ rerun' = "none"
    /\ wroteQty' = FALSE
    /\ raced' = FALSE

\* a start() that does not look at self._running
DoStart_NoRunningTest(en) ==
    IF ~en
    THEN UNCHANGED <<running, loop_task, loops>>
    ELSE /\ running' = TRUE
         /\ loop_task' = NewId
         /\ loops' = [loops EXCEPT ![NewId] = "ready"]

\* start(), erp lines 244-263, sql lines 328-351, with self.enabled = en
DoStart(en) ==
    IF running \/ ~en
    THEN UNCHANGED <<running, loop_task, loops>>
    ELSE /\ running' = TRUE
         /\ loop_task' = NewId
         /\ loops' = [loops EXCEPT ![NewId] = "ready"]

\* the call creates no task, or there is a task left to create
CanStart(en) == running \/ ~en \/ FreeIds # {}

Called(name) ==
    /\ calls < MaxCalls
    /\ calls' = calls + 1
    /\ lastCall' = name

Start ==
    /\ Called("start")
    /\ CanStart(enabled)
    /\ DoStart(enabled)
    /\ UNCHANGED <<enabled, sync_interval, stopCalled>>
    /\ UNCHANGED <<poolVars, threadVars, syncVars>>

\* stop(), erp lines 265-270, sql lines 353-358: Task.cancel() asks for
\* CancelledError to be raised in the task where it is suspended
Stop ==
    /\ Called("stop")
    /\ running' = FALSE
    /\ loops' = IF loop_task # NoTask /\ Alive(loop_task)
                THEN [loops EXCEPT ![loop_task] =
                        IF @ = "run" THEN "cancelling_run" ELSE "cancelling"]
                ELSE loops
    /\ stopCalled' = TRUE
    /\ UNCHANGED <<enabled, loop_task, sync_interval>>
    /\ UNCHANGED <<poolVars, threadVars, syncVars>>

\* a disable() that also stops the loop
Disable_AndStop ==
    /\ Called("disable")
    /\ enabled' = FALSE
    /\ running' = FALSE
    /\ loops' = IF loop_task # NoTask /\ Alive(loop_task)
                THEN [loops EXCEPT ![loop_task] =
                        IF @ = "run" THEN "cancelling_run" ELSE "cancelling"]
                ELSE loops
    /\ UNCHANGED <<loop_task, sync_interval, stopCalled>>
    /\ UNCHANGED <<poolVars, threadVars, syncVars>>

\* disable(), erp lines 302-305, sql lines 391-394
Disable ==
    /\ Called("disable")
    /\ enabled' = FALSE
    /\ UNCHANGED <<running, loop_task, loops, sync_interval, stopCalled>>
    /\ UNCHANGED <<poolVars, threadVars, syncVars>>

\* enable(), erp lines 295-300, sql lines 384-389
Enable ==
    /\ Called("enable")
    /\ enabled' = TRUE
    /\ CanStart(TRUE)
    /\ DoStart(TRUE)
    /\ UNCHANGED <<sync_interval, stopCalled>>
    /\ UNCHANGED <<poolVars, threadVars, syncVars>>

\* set_interval(), erp lines 290-293, sql lines 379-382
SetInterval(v) ==
    /\ Called("set_interval")
    /\ sync_interval # v
    /\ sync_interval' = v
    /\ UNCHANGED <<enabled, running, loop_task, loops, stopCalled>>
    /\ UNCHANGED <<poolVars, threadVars, syncVars>>

\* what an attempt that starts no run does to the loop task
AfterFailedAttempt_Escapes(i) == [loops EXCEPT ![i] = "done"]

\* erp lines 237-242, sql lines 321-326: the exception is caught, the loop sleeps
AfterFailedAttempt(i) == [loops EXCEPT ![i] = "sleep"]

\* _sync_loop, erp lines 226-242, sql lines 309-326: the loop test, then
\* test_connection(), then the sync call up to its first await (or its raise
\* and the loop's except block)
Loop_Wake(i) ==
    /\ loops[i] \in {"ready", "sleep"}
    /\ IF ~(running /\ enabled)
       THEN /\ loops' = [loops EXCEPT ![i] = "done"]
            /\ UNCHANGED <<runPc, snapshot, task, rerun, sync_stats, started>>
       ELSE /\ runPc = "idle"
            /\ started < MaxRuns
            /\ started' = started + 1
            /\ \E outcome \in {"skipped", "unavailable", "fetch_failed", "fetched"} :
                 CASE outcome = "skipped" ->
                        \* the loop's own test_connection() is false
                        /\ sync_stats' = Bump(sync_stats, "failed_syncs")
                        /\ loops' = AfterFailedAttempt(i)
                        /\ UNCHANGED <<runPc, snapshot, task, rerun>>
                   [] outcome = "unavailable" ->
                        \* the sync call's test_connection() is false: it raises
                        /\ sync_stats' = Bump(sync_stats, "failed_syncs")
                        /\ loops' = AfterFailedAttempt(i)
                        /\ UNCHANGED <<runPc, snapshot, task, rerun>>
                   [] outcome = "fetch_failed" ->
                        \* get_all_items() raises: counted by the sync call
                        \* (erp line 105, sql line 209) and by the loop
                        /\ sync_stats' = Bump(Bump(sync_stats, "failed_syncs"), "failed_syncs")
                        /\ loops' = AfterFailedAttempt(i)
                        /\ UNCHANGED <<runPc, snapshot, task, rerun>>
                   [] outcome = "fetched" ->
                        /\ runPc' = BeginResult(outcome)
                        /\ snapshot' = source
                        /\ task' = [b \in 1..NumBatches(Len(source)) |-> NewTask(b)]
                        /\ rerun' = lastRun
                        /\ loops' = [loops EXCEPT ![i] = "run"]
                        /\ UNCHANGED sync_stats
    /\ UNCHANGED <<enabled, running, loop_task, sync_interval, calls, lastCall, stopCalled>>
    /\ UNCHANGED <<impl, batch_size, source, docs, stats, lastRun, wroteQty, raced, check>>
    /\ UNCHANGED <<poolVars, threadVars>>

\* the awaited store calls of the loop's run
Loop_RunStep(i) ==
    /\ loops[i] = "run"
    /\ \E b \in 1..MaxItems :
         \/ Batch_Start(b)
         \/ Item_Find(b)
         \/ Item_Write(b)
         \/ Item_Except(b)

\* the sync call returns (or raises on the metadata upsert) and the loop counts
\* it: erp lines 91-100 and 235-236, sql lines 177-211 and 319-323
Loop_RunEnds(i) ==
    /\ loops[i] = "run"
    /\ runPc = "running"
    /\ \A b \in DOMAIN task : task[b].st = "done"
    /\ \E upserted \in BOOLEAN :
         /\ impl = "erp" => upserted
         /\ sync_stats' =
              IF impl = "erp"
              THEN Bump(ErpFinished(sync_stats, stats), "total_syncs")
              ELSE IF upserted
              THEN Bump(SqlFinished(sync_stats, stats), "total_syncs")
              ELSE Bump(SqlUpsertFailed(sync_stats, stats), "failed_syncs")
         /\ lastRun' = IF ~upserted THEN "none"
                       ELSE IF stats.errors = 0 THEN "clean" ELSE "errors"
    /\ RunReset
    /\ loops' = [loops EXCEPT ![i] = "sleep"]
    /\ UNCHANGED <<enabled, running, loop_task, sync_interval, calls, lastCall, stopCalled>>
    /\ UNCHANGED <<impl, batch_size, source, docs, started, check>>
    /\ UNCHANGED <<poolVars, threadVars>>

\* CancelledError is raised in the task where it is suspended; no except
\* block of the loop or of the sync call catches it (it is no Exception)
Loop_Cancelled(i) ==
    /\ Pending(i)
    /\ loops' = [loops EXCEPT ![i] = "cancelled"]
    /\ IF loops[i] = "cancelling_run"
       THEN /\ RunReset
            /\ lastRun' = "none"
       ELSE UNCHANGED <<runPc, snapshot, stats, task, rerun, wroteQty, raced, lastRun>>
    /\ UNCHANGED <<enabled, running, loop_task, sync_interval, calls, lastCall, stopCalled>>
    /\ UNCHANGED <<impl, batch_size, source, docs, sync_stats, started, check>>
    /\ UNCHANGED <<poolVars, threadVars>>

LoopNext ==
    \/ Start
    \/ Stop
    \/ Enable
    \/ Disable
    \/ \E v \in Intervals : SetInterval(v)
    \/ \E i \in LoopIds : Loop_Wake(i)
    \/ \E i \in LoopIds : Loop_RunStep(i)
    \/ \E i \in LoopIds : Loop_RunEnds(i)
    \/ \E i \in LoopIds : Loop_Cancelled(i)

\* the stores the loop works on
LoopStores ==
    {[k \in Keys |-> NoDoc], [k \in Keys |-> IF k = 1 THEN Doc(0, 0) ELSE NoDoc]}

LoopSources ==
    {<<>>,
     <<[key |-> 1, qty |-> 2, mrp |-> Absent]>>,
     <<[key |-> 1, qty |-> 2, mrp |-> Absent], [key |-> 2, qty |-> 2, mrp |-> 50]>>}

LoopSyncInit ==
    /\ impl \in {"erp", "sql"}
    /\ batch_size = 1
    /\ source \in {s \in LoopSources : Len(s) <= MaxItems}
    /\ docs \in LoopStores
    /\ runPc = "idle"
    /\ snapshot = <<>>
    /\ stats = ZeroStats
    /\ task = NoTasks
    /\ sync_stats = ZeroSyncStats
    /\ started = 0
    /\ lastRun = "none"
    /\ rerun = "none"
    /\ wroteQty = FALSE
    /\ raced = FALSE
    /\ check = NoCheck

LoopInitAll == PoolOff /\ ThreadInit /\ LoopSyncInit /\ LoopInit

\* the service under start, stop, enable, disable and set_interval calls, with
\* its background loop
LoopSpec == LoopInitAll /\ [][LoopNext]_vars

\* the pool after construction, no call in flight
Init == PoolInit /\ ThreadInit /\ SyncOff /\ LoopOff

\* the pool used by any number of concurrent callers
PoolSpec == Init /\ [][PoolNext]_vars

\* the pool used by one caller at a time (every call returns before the next)
SeqNext == Tick \/ ThreadStep(1)

SeqSpec == Init /\ [][SeqNext]_vars

\* a step of a caller that uses the pool through with-blocks only
WithStep(t) ==
    \/ With_Enter(t)
    \/ GetConnection_TryPool(t)
    \/ GetConnection_CheckLimit(t)
    \/ GetConnection_Backoff(t)
    \/ CreateConnection(t)
    \/ TrackConnection(t)
    \/ Discard_Close(t)
    \/ Discard_Untrack(t)
    \/ ValidateAndRefresh(t)
    \/ MarkCheckedOut(t)
    \/ With_Acquired(t)
    \/ With_AcquireFailed(t)
    \/ With_BodyEnds(t)
    \/ ReturnConnection_Untrack(t)
    \/ ReturnConnection_Put(t)
    \/ With_Exit(t)

WithNext == Tick \/ \E t \in Threads : WithStep(t)

\* concurrent callers that reach the pool through `with pool.get_connection()`
WithSpec == Init /\ [][WithNext]_vars

\* a caller's step in a pool that nobody closes
OpenStep(t) ==
    \/ GetConnection_Begin(t)
    \/ GetConnection_TryPool(t)
    \/ GetConnection_CheckLimit(t)
    \/ GetConnection_Backoff(t)
    \/ CreateConnection(t)
    \/ TrackConnection(t)
    \/ Discard_Close(t)
    \/ Discard_Untrack(t)
    \/ ValidateAndRefresh(t)
    \/ MarkCheckedOut(t)
    \/ \E c \in Conns : ReturnConnection_Begin(t, c)
    \/ ReturnConnection_Untrack(t)
    \/ ReturnConnection_Put(t)
    \/ Return(t)

OpenNext == Tick \/ \E t \in Threads : OpenStep(t)

\* the pool while it is open: concurrent callers, close_all never called
OpenSpec == Init /\ [][OpenNext]_vars

\* ===================================================== connection pool claims

\* C1: at no time are more than pool_size + max_overflow connections active:
\* neither the connections the pool has opened and not yet closed, nor its
\* active-connection counter, exceeds the capacity.
C1_ActiveWithinCapacity ==
    /\ Cardinality(live) <= Capacity
    /\ active_connections <= Capacity

\* C4: an acquire that finds the idle queue empty and the count under the
\* limit creates a connection and returns it; it never blocks.  Stated on the
\* only place it can block for good: no thread waits in
\* _create_and_track_connection for the lock it holds itself.
C4_OverflowAcquireNeverBlocks ==
    \A t \in Threads : ~(pc[t] = "ct_track" /\ lock = t)

\* C5: acquire never hands out a pooled connection whose age since it was
\* opened exceeds the recycle threshold: whenever a pooled connection passes
\* the age check of _validate_and_refresh, its real age is within Recycle.
C5_NeverReturnsOverAge ==
    [][\A t \in Threads :
         (pc[t] = "vr_check" /\ pc'[t] = "vr_mark") =>
             now - born[conn[t]] <= Recycle]_vars

\* C7: when close_all returns, the active count is 0 and the idle queue and
\* the checked-out set are empty, whatever was idle or checked out before.
C7_CloseAllLeavesNothing ==
    \A t \in Threads :
        pc[t] = "ca_done" =>
            /\ active_connections = 0
            /\ pool = <<>>
            /\ checked_out = {}

\* close_all has returned while a connection handed out earlier is still open
C7_Witness ==
    pc[1] = "ca_done" /\ live # {} /\ nextId > 1

\* C8: releasing a connection that is not checked out changes neither the
\* active count, nor the idle queue, nor the checked-out set, and the call
\* ends there (the connection is not queued again).
C8_ReleaseNotCheckedOutIsNoOp ==
    [][\A t \in Threads :
         /\ (pc[t] = "rc_untrack" /\ pc'[t] # pc[t] /\ conn[t] \notin checked_out) =>
               /\ pc'[t] = "rc_noop"
               /\ UNCHANGED <<active_connections, pool, checked_out, live>>
         /\ (pc[t] = "rc_noop" /\ pc'[t] # pc[t]) =>
               /\ pc'[t] = "idle"
               /\ UNCHANGED <<active_connections, pool, checked_out, live>>]_vars

\* a second release of a connection that already sits in the idle queue
C8_Witness ==
    \E t \in Threads : pc[t] = "rc_noop" /\ conn[t] \in IdleConns

\* C9: an acquire that finds the pool exhausted (idle queue empty, count at
\* capacity) gets no connection from that attempt and backs off; it leaves
\* the retry loop with a connection only by popping an idle one or by
\* creating one under the limit; at the loop head past its deadline it ends
\* with the timeout error, and it times out only then.
C9_ExhaustedAcquireWaitsOrTimesOut ==
    [][\A t \in Threads :
         /\ (pc[t] = "gc_limit" /\ pc'[t] # pc[t] /\ active_connections >= Capacity) =>
               /\ pc'[t] = "gc_sleep"
               /\ UNCHANGED <<active_connections, pool, checked_out, live, nextId, lock>>
         /\ (pc[t] = "gc_limit" /\ pc'[t] = "ct_create") =>
               active_connections < Capacity
         /\ (pc[t] = "gc_loop" /\ pc'[t] = "vr_check") => pool # <<>>
         /\ (pc[t] = "gc_loop" /\ pc'[t] # pc[t] /\ now >= deadline[t]) =>
               pc'[t] = "gc_timeout"
         /\ (pc[t] # "gc_timeout" /\ pc'[t] = "gc_timeout") =>
               (pc[t] = "gc_loop" /\ now >= deadline[t])
         /\ (pc[t] # "gc_error" /\ pc'[t] = "gc_error") =>
               (pc[t] = "ct_create")]_vars

\* an acquire has timed out on a pool that is still exhausted
C9_Witness ==
    \E t \in Threads :
        pc[t] = "gc_timeout" /\ pool = <<>> /\ active_connections = Capacity

\* ------------------------------------------------------------------ C2
\* C2: when a full sync updates an existing document (its stored quantity
\* differs from the source quantity), the field set of the write holds sync
\* fields only and no enrichment field, every enrichment field of the document
\* has the same value after the write as before it, also when an editor wrote
\* the document after the sync read it, and no other document changes.
C2_SyncWriteKeepsEnrichment ==
    [][\A b \in DOMAIN task :
         (/\ task[b].st = "write"
          /\ task'[b] # task[b]
          /\ task'[b].st # "except"
          /\ WriteKind(task[b].existing, Item(b).qty) = "update")
         => LET k == Item(b).key
                set == UpdateSet(Item(b).qty, OldQty(task[b].existing))
            IN  /\ DOMAIN set \cap EnrichmentFields = {}
                /\ DOMAIN set \subseteq SyncFields
                /\ \A f \in Fields \cap EnrichmentFields : docs'[k][f] = docs[k][f]
                /\ \A f \in Fields : docs'[k][f] # docs[k][f] => f \in SyncFields
                /\ \A j \in Keys \ {k} : docs'[j] = docs[j]]_vars

\* a run has updated the quantity of a document whose MRP an editor had set
\* between the run's read and its write, and the MRP is still the editor's
C2_Witness ==
    /\ raced
    /\ \E k \in Edited : docs[k].mrp = 100 /\ docs[k].stock_qty \in Qtys

\* ------------------------------------------------------------------ C3
Updated == IF impl = "erp" THEN stats.items_updated ELSE stats.qty_updated

\* no item code is listed twice with two quantities
NoConflict ==
    \A i, j \in DOMAIN source :
        source[i].key = source[j].key => source[i].qty = source[j].qty

C6_ItemFailureIsIsolated ==
    [][\A b \in DOMAIN task :
         /\ (task[b].st \in {"find", "write"} /\ task'[b].st = "except")
            => /\ docs' = docs
               /\ stats' = stats
               /\ runPc' = runPc
               /\ task'[b].pos = task[b].pos
               /\ \A c \in DOMAIN task \ {b} : task'[c] = task[c]
         /\ (task[b].st = "except" /\ task'[b] # task[b])
            => /\ stats' = [stats EXCEPT !.errors = @ + 1]
               /\ docs' = docs
               /\ runPc' = "running"
               /\ task'[b].pos = task[b].pos + 1
               /\ task'[b].st = IF task[b].pos < LastOf(b, Len(snapshot))
                                THEN "find" ELSE "done"
               /\ \A c \in DOMAIN task \ {b} : task'[c] = task[c]]_vars

\* a run over one batch of two items has completed: the first item failed and
\* was counted as the one error, the second was then created and counted
C6_Witness ==
    /\ runPc = "done"
    /\ batch_size = 2
    /\ Len(snapshot) = 2
    /\ snapshot[1].key # snapshot[2].key
    /\ EmptyKey \notin {snapshot[1].key, snapshot[2].key}
    /\ stats.errors = 1
    /\ stats.items_created = 1
    /\ docs[snapshot[1].key] = NoDoc
    /\ docs[snapshot[2].key] # NoDoc

\* ----------------------------------------------------------------- C10
\* C10: when the source is unreachable and the document store answers the read
\* with a document for the key, check_item_qty_realtime returns the document's
\* stored quantity with updated = false and the cache tag, does not raise, and
\* that step, the only one after the connection test, writes no document.
C10_UnreachableReturnsCached ==
    [][(/\ check.pc = "cache_find"
        /\ check' # check
        /\ check'.pc # "raised"
        /\ Exists(check.key))
       => /\ check'.pc = "returned"
          /\ check'.result.sql_qty = Get(docs[check.key], "stock_qty", NoneVal)
          /\ check'.result.updated = FALSE
          /\ check'.result.source = "mongodb_cache"
          /\ docs' = docs]_vars

\* a check has returned the cached quantity of a document whose two quantity
\* fields differ
C10_Witness ==
    /\ check.pc = "returned"
    /\ check.result.source = "mongodb_cache"
    /\ check.result.sql_qty = 2
    /\ docs[check.key].stock_qty = 2
    /\ docs[check.key].sql_server_qty = 0

\* ----------------------------------------------------------------- C11
\* C11: when a full sync inserts a document for a source record whose key has
\* none, the new document carries the key and the source quantity in both
\* quantity fields, its serial number, MRP, HSN code, location and condition
\* are null or empty whatever the source record carries, data_complete is
\* false, verification (where the document has it) is pending, and the item
\* is counted as created.
C11_CreatedDocumentHasEmptyEnrichment ==
    [][\A b \in DOMAIN task :
         (/\ task[b].st = "write"
          /\ task'[b] # task[b]
          /\ task'[b].st # "except"
          /\ WriteKind(task[b].existing, Item(b).qty) = "insert"
          /\ docs[Item(b).key] = NoDoc)
         => LET k == Item(b).key
                q == Item(b).qty
                new == NewItem(k, Item(b), q)
            IN  /\ new.item_code = k
                /\ docs'[k].stock_qty = q
                /\ docs'[k].sql_server_qty = q
                /\ docs'[k].serial_number = NoneVal
                /\ docs'[k].mrp \in {NoneVal, 0}
                /\ new.hsn_code = NoneVal
                /\ new.location = NoneVal
                /\ new.condition = NoneVal
                /\ new.data_complete = FALSE
                /\ "verification_status" \in DOMAIN new
                      => new.verification_status = "pending"
                /\ stats'.items_created = stats.items_created + 1]_vars

\* ----------------------------------------------------------------- C12
\* C12: when a full sync processes an existing document whose stored quantity
\* differs from the source quantity by more than the tolerance, and nobody
\* wrote the document since the sync read it, the document afterwards has the
\* source quantity and a stored delta = source quantity - stored quantity, and
\* the item is counted as updated.
C12_UpdateStoresQuantityAndDelta ==
    [][\A b \in DOMAIN task :
         (/\ task[b].st = "write"
          /\ task'[b] # task[b]
          /\ task'[b].st # "except"
          /\ task[b].existing # NoDoc
          /\ docs[Item(b).key] = task[b].existing
          /\ Abs(Item(b).qty - OldQty(task[b].existing)) > Eps)
         => LET k == Item(b).key
                q == Item(b).qty
            IN  /\ docs'[k].stock_qty = q
                /\ docs'[k].sql_server_qty = q
                /\ docs'[k].qty_change_delta = q - OldQty(task[b].existing)
                /\ docs'[k].mrp = docs[k].mrp
                /\ Updated' = Updated + 1]_vars

\* ----------------------------------------------------------------- C13
\* C13: when a full sync processes an existing document whose stored quantity
\* differs from the source quantity by at most the tolerance (a non-zero
\* difference included), no write of the item changes a quantity or the delta
\* of the document, and the item is not counted as updated.
C13_WithinToleranceWritesNoQuantity ==
    [][\A b \in DOMAIN task :
         (/\ task[b].st = "write"
          /\ task'[b] # task[b]
          /\ task'[b].st # "except"
          /\ task[b].existing # NoDoc
          /\ docs[Item(b).key] = task[b].existing
          /\ Abs(Item(b).qty - OldQty(task[b].existing)) <= Eps)
         => LET k == Item(b).key
            IN  /\ docs'[k].stock_qty = docs[k].stock_qty
                /\ docs'[k].sql_server_qty = docs[k].sql_server_qty
                /\ docs'[k].qty_change_delta = docs[k].qty_change_delta
                /\ Updated' = Updated]_vars

\* ----------------------------------------------------------------- C20
\* an editor's write apart, no document is inserted or changed
NoSyncWrite ==
    \A k \in Keys :
        \/ docs'[k] = docs[k]
        \/ k \in Edited /\ docs[k] # NoDoc /\ docs'[k] = [docs[k] EXCEPT !.mrp = 100]

\* C20: a full sync started while the source is unreachable, or whose bulk
\* fetch fails, ends with an exception for its caller: a call that has not
\* fetched the snapshot never holds a result, it has processed no batch, and
\* from its start to the moment the caller has the exception it inserts and
\* updates no document.
C20_UnreachableRunRaises ==
    [][/\ (runPc = "idle" /\ runPc' # "idle")
          => \/ runPc' = "running" /\ snapshot' = source
             \/ /\ runPc' \in {"raised_unavailable", "raised_fetch"}
                /\ task' = NoTasks
                /\ docs' = docs
       /\ runPc \in {"raised_unavailable", "raised_fetch"}
          => /\ runPc' \in {runPc, "idle"}
             /\ task' = NoTasks
             /\ stats'.items_created = 0 /\ Updated' = 0
             /\ NoSyncWrite]_vars

\* both failures have been surfaced: the second call raised on the fetch after
\* the first raised on the connection test, and the store holds what it held
C20_Witness ==
    /\ runPc = "raised_fetch"
    /\ started = 2
    /\ sync_stats.failed_syncs = 1
    /\ source # <<>>
    /\ \A i \in DOMAIN source : docs[source[i].key] = NoDoc

\* ---------------------------------------------------------------------------
\* the loop tasks that go on iterating
AliveLoops == {i \in LoopIds : Alive(i)}

\* a step that is the call of the named method
CallOf(name) == calls' = calls + 1 /\ lastCall' = name

\* C14: start() is idempotent: called while the service is running it creates
\* no task and changes no state; called while the service is disabled and
\* stopped it leaves it stopped and creates no task; and under any sequence of
\* start, stop, enable and disable calls at most one loop task is alive.
C14_StartIsIdempotent ==
    /\ [](Cardinality(AliveLoops) <= 1)
    /\ [][CallOf("start") =>
            /\ running => /\ UNCHANGED <<enabled, running, loop_task, loops,
                                         sync_interval, stopCalled>>
                          /\ UNCHANGED syncVars
            /\ ~running /\ ~enabled => /\ ~running'
                                       /\ loops' = loops
                                       /\ loop_task' = loop_task]_vars

\* start() called a second time while the first call's loop is in its run
C14_Witness ==
    /\ calls = 2
    /\ lastCall = "start"
    /\ sync_interval = DefaultInterval
    /\ running
    /\ loops[1] = "run"
    /\ loops[2] = "none"
    /\ \E b \in DOMAIN task : task[b].st # "done"

\* C15: stop() cancels only the wait between runs: a run of the loop that is
\* in flight when stop() is called is not cancelled and ends only when all of
\* its batches are processed; after stop() the running flag is false and no
\* run is started while it is false.
C15_StopLetsRunFinish ==
    /\ [](lastCall = "stop" => ~running)
    /\ [][/\ (runPc = "running" /\ runPc' # "running")
                => \A b \in DOMAIN task : task[b].st = "done"
          /\ (runPc # "running" /\ runPc' = "running") => running]_vars

\* C16: after enable() returns the service is enabled and a loop task is
\* alive, whatever start, stop, disable calls and loop iterations came before.
C16_EnableLeavesLoopActive ==
    lastCall = "enable" => enabled /\ AliveLoops # {}

\* C17: disable() changes only the enabled flag: the running flag, the loop
\* task, the interval, the cumulative statistics, a run in flight and the wait
\* of the loop are as before the call; and the loop makes no attempt and
\* starts no run while the service is disabled.
C17_DisableChangesOnlyEnabled ==
    [][/\ CallOf("disable")
          => /\ ~enabled'
             /\ UNCHANGED <<running, loop_task, loops, sync_interval, stopCalled>>
             /\ UNCHANGED syncVars
       /\ (runPc # "running" /\ runPc' = "running") => enabled
       /\ started' # started => enabled]_vars

\* disable() called while the loop's run is in flight
C17_Witness ==
    /\ lastCall = "disable"
    /\ ~enabled
    /\ running
    /\ runPc = "running"
    /\ \E i \in LoopIds : loops[i] = "run"
    /\ \E b \in DOMAIN task : task[b].st # "done"

\* C18: the loop exits only on stop(): no loop task has ended while stop()
\* has not been called.
C18_LoopEndsOnlyOnStop ==
    (\E i \in LoopIds : loops[i] \in {"done", "cancelled"}) => stopCalled

\* C19: the loop survives an unavailable source and a failed run: an attempt
\* that starts no run fetches nothing, writes no document, increases
\* failed_syncs and leaves the loop in its wait; a run that raises at its end
\* is counted in failed_syncs and leaves the loop in its wait; and the loop
\* ends only when the service is not both running and enabled.
C19_LoopSurvivesFailures ==
    [][/\ (started' # started /\ runPc' # "running")
          => /\ sync_stats'.failed_syncs > sync_stats.failed_syncs
             /\ docs' = docs
             /\ snapshot' = <<>> /\ task' = NoTasks
             /\ \E i \in LoopIds : /\ loops[i] \in {"ready", "sleep"}
                                    /\ loops' = [loops EXCEPT ![i] = "sleep"]
       /\ (runPc = "running" /\ runPc' = "idle"
             /\ sync_stats'.failed_syncs > sync_stats.failed_syncs)
          => \E i \in LoopIds : /\ loops[i] = "run"
                                 /\ loops' = [loops EXCEPT ![i] = "sleep"]
       /\ \A i \in LoopIds : (loops[i] # "done" /\ loops'[i] = "done")
                                 => ~(running /\ enabled)]_vars

\* a failed attempt, and the same loop in the run of its next attempt
C19_Witness ==
    /\ started = 2
    /\ sync_stats.failed_syncs >= 1
    /\ sync_stats.total_syncs = 0 /\ sync_stats.successful_syncs = 0
    /\ running /\ enabled /\ ~stopCalled
    /\ loops[1] = "run"
    /\ loops[2] = "none"

\* C21: during a full sync at most MaxConcurrentBatches batches are being
\* processed at any moment; a batch is entered once and walks its items once,
\* in order; the run ends only when every batch has walked all of its items;
\* and a run that has fetched its items does end.
C21_BatchesBoundedAndAllProcessed ==
    /\ [](Cardinality(ActiveBatches) <= MaxConcurrentBatches)
    /\ [][/\ runPc = "running" /\ runPc' = "running"
              => \A b \in DOMAIN task :
                   /\ task'[b].st = "wait" => task[b].st = "wait"
                   /\ task[b].st = "done" => task'[b] = task[b]
                   /\ task'[b].pos \in {task[b].pos, task[b].pos + 1}
          /\ runPc = "running" /\ runPc' # "running"
              => /\ DOMAIN task = 1..NumBatches(Len(snapshot))
                 /\ \A b \in DOMAIN task :
                      /\ task[b].st = "done"
                      /\ task[b].pos = LastOf(b, Len(snapshot)) + 1]_vars
    /\ (runPc = "running" ~> runPc \in {"done", "raised_metadata"})

\* the semaphore is full and a batch waits for a slot
C21_Witness ==
    /\ impl = "erp"
    /\ runPc = "running"
    /\ Cardinality(ActiveBatches) = MaxConcurrentBatches
    /\ \E b \in DOMAIN task : task[b].st = "wait"

\* ------------------------------------------------------------------ C22
\* the connections a caller is creating (opened, not yet counted) or discarding
InCreation == {conn[t] : t \in {u \in Threads : pc[u] = "ct_track"}}

InDiscard == {conn[t] : t \in {u \in Threads : pc[u] = "dc_close"}}

\* C22: while the pool is open, every open connection of the pool is in
\* exactly one of the idle queue and the checked-out set, also between its
\* being popped and marked checked out and between its being unmarked and
\* queued again (a connection in the middle of its creation or of its discard
\* is left aside).
C22_IdleXorCheckedOut ==
    \A c \in live \ (InCreation \cup InDiscard) :
        (c \in IdleConns) # (c \in checked_out)

\* ------------------------------------------------------------------ C23
\* C23: when the creation of a connection fails during an acquire (overflow
\* creation, or replacement of a discarded idle connection), the acquire ends
\* with the error; the failing step changes neither the active count nor the
\* open connections, the idle queue or the checked-out set, so the count
\* equals the number of open connections after it if it did before; the lock
\* is not held by the failed caller; and the error reaches the caller with
\* nothing else changed.
C23_FailedCreationLeavesCounters ==
    [][\A t \in Threads :
         /\ (pc[t] = "ct_create" /\ pc'[t] # pc[t])
               => pc'[t] \in {"ct_track", "gc_error"}
         /\ (pc[t] = "ct_create" /\ pc'[t] = "gc_error")
               => /\ UNCHANGED <<active_connections, live, pool, checked_out, nextId>>
                  /\ lock' # t
                  /\ lock # t => lock' = lock
                  /\ (active_connections = Cardinality(live))
                        => (active_connections' = Cardinality(live'))
         /\ (pc[t] = "gc_error" /\ pc'[t] # pc[t])
               => /\ pc'[t] = "idle"
                  /\ UNCHANGED <<active_connections, live, pool, checked_out, lock>>]_vars

\* a caller whose replacement of a discarded idle connection failed, while the
\* other caller's overflow creation had failed: count and open connections agree
C23_Witness ==
    /\ pc[1] = "gc_error" /\ caller[1] = "refresh"
    /\ pc[2] = "gc_error" /\ caller[2] = "overflow"
    /\ lock = NoThread
    /\ active_connections = Cardinality(live)

\* ------------------------------------------------------------------ C24
\* the callers inside _return_connection that are about to take the lock
Releasing == {t \in Threads : \/ pc[t] = "rc_untrack"
                              \/ pc[t] = "dc_untrack" /\ caller[t] = "return"}

\* the callers inside _get_connection
Acquiring == {t \in Threads : \/ pc[t] \in {"gc_loop", "gc_limit", "gc_sleep", "vr_check", "vr_mark"}
                              \/ pc[t] \in {"ct_create", "ct_track"}
                              \/ pc[t] \in {"dc_close", "dc_untrack"} /\ caller[t] = "refresh"}

\* C24: release never blocks: a release that needs the lock never finds it
\* held by a caller that is inside an acquire.
C24_ReleaseNeverWaitsForAcquire ==
    \A t \in Releasing : lock \notin Acquiring

\* ------------------------------------------------------------------ C25
\* C25: the release of a checked-out connection removes it from the
\* checked-out set and nothing else; it then either queues the connection,
\* which it does only when the idle queue is not full, with the active count
\* unchanged, or discards it: the connection is closed, the active count goes
\* down by exactly one, and the idle queue is left as it was.
C25_ReleaseQueuesOrDiscards ==
    [][\A t \in Threads :
         /\ (pc[t] = "rc_untrack" /\ pc'[t] # pc[t] /\ conn[t] \in checked_out)
               => /\ pc'[t] = "rc_put"
                  /\ checked_out' = checked_out \ {conn[t]}
                  /\ UNCHANGED <<active_connections, pool, live>>
         /\ (pc[t] = "rc_put" /\ pc'[t] # pc[t])
               => \/ /\ pc'[t] = "rc_done"
                     /\ ~QueueFull
                     /\ pool' = Append(pool, Entry(conn[t], now))
                     /\ UNCHANGED <<active_connections, checked_out, live>>
                  \/ /\ pc'[t] = "dc_close"
                     /\ UNCHANGED <<active_connections, checked_out, live, pool>>
         /\ (pc[t] = "dc_close" /\ caller[t] = "return" /\ pc'[t] # pc[t])
               => /\ pc'[t] = "dc_untrack"
                  /\ live' = live \ {conn[t]}
                  /\ UNCHANGED <<active_connections, checked_out, pool>>
         /\ (pc[t] = "dc_untrack" /\ caller[t] = "return" /\ pc'[t] # pc[t])
               => /\ pc'[t] = "rc_done"
                  /\ active_connections' = active_connections - 1
                  /\ conn[t] \notin checked_out'
                  /\ UNCHANGED <<pool, live>>]_vars

\* the release of a checked-out connection that had gone invalid is over: the
\* connection is closed and counted out
C25_Witness ==
    /\ pc[1] = "rc_done"
    /\ caller[1] = "return"
    /\ conn[1] \notin live
    /\ conn[1] \notin checked_out
    /\ pc[2] = "idle"
    /\ active_connections = Cardinality(live)
    /\ nextId > 2

\* ------------------------------------------------------------------ C26
\* C26: a connection obtained through the get_connection context manager is
\* in the checked-out set during the whole body of the block; when the body
\* ends, normally or with an exception, the connection is released: the
\* release finds it checked out and removes it from the checked-out set before
\* the block is left; and when the acquire fails no release is attempted and
\* the pool is left as it is.
C26_WithBlockHoldsThenReleases ==
    /\ [](\A t \in Threads :
            pc[t] = "with_body" => conn[t] # NoConn /\ conn[t] \in checked_out)
    /\ [][\A t \in Threads :
            /\ (cm[t] = "body" /\ cm'[t] # "body")
                  => /\ cm'[t] \in {"exit", "exit_raised"}
                     /\ pc'[t] = "rc_untrack"
                     /\ conn'[t] = conn[t]
            /\ (cm[t] \in {"exit", "exit_raised"} /\ pc[t] = "rc_untrack" /\ pc'[t] # pc[t])
                  => /\ pc'[t] = "rc_put"
                     /\ conn[t] \in checked_out
                     /\ conn[t] \notin checked_out'
            /\ (cm[t] \in {"exit", "exit_raised"} /\ cm'[t] = "none")
                  => pc[t] = "rc_done"
            /\ (cm[t] = "acquire" /\ cm'[t] = "none")
                  => /\ pc[t] \in {"gc_timeout", "gc_error"}
                     /\ pc'[t] = "idle"
                     /\ UNCHANGED poolVars]_vars

\* a block whose body raised has returned its connection to the idle queue
C26_Witness ==
    \E t \in Threads :
        /\ cm[t] = "exit_raised"
        /\ pc[t] = "rc_done"
        /\ conn[t] \in IdleConns
        /\ conn[t] \notin checked_out

\* ------------------------------------------------------------------ C27
\* C27: a single-item check on a reachable source, for a key the source has
\* and the document store has not, creates the document as a full sync
\* would: quantity = source quantity, enrichment fields empty.
C27_CheckCreatesMissingDocument ==
    [][(/\ check.pc = "find"
        /\ check'.pc = "returned"
        /\ ~Exists(check.key))
       => /\ docs'[check.key] # NoDoc
          /\ docs'[check.key].stock_qty = check.sql_qty
          /\ docs'[check.key].sql_server_qty = check.sql_qty
          /\ docs'[check.key].mrp = NoneVal
          /\ docs'[check.key].serial_number = NoneVal]_vars

\* ------------------------------------------------------------------ C28
\* C28: a single-item check on a reachable source, for a key whose document
\* stores a quantity other than the source's, goes on to an update whose
\* field set holds no enrichment field; the update leaves the enrichment
\* fields of the document as they are at the write, changes no other
\* document, stores the source quantity and the delta, and the call returns
\* updated = true, the stored value as previous quantity, delta = source
\* quantity - stored quantity, and the quantity the document now stores.
C28_CheckUpdatesQuantityOnly ==
    [][/\ (/\ check.pc = "find"
            /\ check'.pc \notin {"find", "raised"}
            /\ Exists(check.key)
            /\ docs[check.key].stock_qty # check.sql_qty)
          => /\ check'.pc = "update"
             /\ check'.result = docs[check.key].stock_qty
             /\ docs' = docs
       /\ (check.pc = "update" /\ check'.pc = "returned")
          => LET k == check.key
                 set == CheckUpdateSet(check.sql_qty, check.result)
             IN  /\ DOMAIN set \cap EnrichmentFields = {}
                 /\ docs'[k].mrp = docs[k].mrp
                 /\ docs'[k].serial_number = docs[k].serial_number
                 /\ \A j \in Keys \ {k} : docs'[j] = docs[j]
                 /\ docs'[k].stock_qty = check.sql_qty
                 /\ docs'[k].sql_server_qty = check.sql_qty
                 /\ docs'[k].qty_change_delta = check.sql_qty - docs[k].stock_qty
                 /\ check'.result.updated
                 /\ check'.result.previous_qty = docs[k].stock_qty
                 /\ check'.result.delta = check.sql_qty - docs[k].stock_qty
                 /\ check'.result.sql_qty = docs'[k].stock_qty]_vars

\* the check has updated the quantity of a document whose MRP an editor had
\* entered
C28_Witness ==
    /\ check.pc = "returned"
    /\ check.result.updated
    /\ check.result.delta = 2
    /\ docs[check.key].mrp = 100
    /\ docs[check.key].stock_qty = 2
    /\ docs[check.key].qty_change_delta = 2

\* ------------------------------------------------------------------ C29
\* a step of thread t inside _get_connection's replacement of a pooled
\* connection
Replacing(t) == caller[t] = "refresh" /\ pc'[t] # pc[t]

\* C29: in a pool nobody closes, a connection popped from the idle queue
\* whose queued age exceeds the recycle threshold is never marked checked out
\* but discarded, as is one that fails the probe: it is closed, then removed
\* from the checked-out table and counted out, and no closed connection is
\* ever in the idle queue or on its way to a caller; the creation that
\* follows, when it succeeds, opens exactly one connection never seen before,
\* which is counted in, marked checked out and returned by the acquire: the
\* count goes down by one and up by one.
C29_OldOrInvalidIsReplaced ==
    /\ [](/\ IdleConns \subseteq live
          /\ \A t \in Threads : pc[t] \in {"vr_check", "vr_mark"} => conn[t] \in live)
    /\ [][\A t \in Threads :
            /\ (pc[t] = "vr_check" /\ pc'[t] # pc[t])
               => /\ NeedsRecycle(now - created_at[t]) => pc'[t] = "dc_close"
                  /\ pc'[t] \in {"dc_close", "vr_mark"}
                  /\ pc'[t] = "dc_close"
                       => /\ caller'[t] = "refresh"
                          /\ conn'[t] = conn[t]
                          /\ UNCHANGED poolVars
            /\ (Replacing(t) /\ pc[t] = "dc_close")
               => /\ pc'[t] = "dc_untrack"
                  /\ conn[t] \notin live'
                  /\ conn'[t] = conn[t]
                  /\ UNCHANGED <<active_connections, pool, checked_out, nextId>>
            /\ (Replacing(t) /\ pc[t] = "dc_untrack")
               => /\ pc'[t] = "ct_create"
                  /\ conn[t] \notin checked_out'
                  /\ conn[t] \notin IdleConns
                  /\ active_connections' = active_connections - 1
                  /\ UNCHANGED <<pool, live, nextId>>
            /\ (Replacing(t) /\ pc[t] = "ct_create" /\ pc'[t] = "ct_track")
               => /\ conn'[t] = nextId
                  /\ conn'[t] # conn[t]
                  /\ conn'[t] \notin live
                  /\ live' = live \cup {conn'[t]}
                  /\ nextId' = nextId + 1
                  /\ UNCHANGED <<active_connections, pool, checked_out>>
            /\ (Replacing(t) /\ pc[t] = "ct_track")
               => /\ pc'[t] = "gc_done"
                  /\ conn'[t] = conn[t]
                  /\ checked_out' = checked_out \cup {conn[t]}
                  /\ active_connections' = active_connections + 1
                  /\ UNCHANGED <<pool, live, nextId>>]_vars

\* an acquire has replaced the expired connection 1 by a new one and returns it
C29_Witness ==
    \E t \in Threads :
        /\ pc[t] = "gc_done"
        /\ caller[t] = "refresh"
        /\ 1 \notin live
        /\ conn[t] \in live \cap checked_out
        /\ now > Recycle
        /\ active_connections = 1
        /\ live = {conn[t]}

\* ------------------------------------------------------------------ C30
\* C30: the field set refresh_stock_from_erp writes holds no enrichment
\* field, and a refresh of an item whose document exists leaves the MRP and
\* the serial number of that document as they were before the call.
C30_RefreshKeepsEnrichment ==
    [][\A k \in Keys :
         RefreshStockFromErp(k)
            => /\ \A item \in SrcRecords :
                    DOMAIN RefreshItemData(item) \cap EnrichmentFields = {}
               /\ Exists(k)
                    => /\ docs'[k].mrp = docs[k].mrp
                       /\ docs'[k].serial_number = docs[k].serial_number]_vars

\* ------------------------------------------------------------------ C31
\* no pool method is in progress in any thread
Quiescent == \A t \in Threads : pc[t] = "idle" /\ cm[t] = "none"

\* C31: whenever no pool operation is in progress, under concurrent acquire,
\* release and close_all calls, the active-connection count equals the number
\* of queued idle connections plus the number of checked-out connections; in
\* particular the idle queue is empty whenever the count is 0.
C31_QuiescentCountIsIdlePlusCheckedOut ==
    Quiescent =>
        /\ active_connections = Len(pool) + Cardinality(checked_out)
        /\ active_connections = 0 => pool = <<>>

\* ------------------------------------------------------------------ C32
\* C32: whenever the running flag and the enabled flag are both true, a task
\* running _sync_loop is alive (it has not returned and is not cancelled).
C32_RunningMeansLoopAlive ==
    (running /\ enabled) => AliveLoops # {}

\* ------------------------------------------------------------------ C33
\* C33: at most one document is ever inserted for a key: whenever a batch's
\* insert_one goes through, the store holds no document of that item code
\* (also when the snapshot lists the code in two batches of the run).
C33_AtMostOneInsertPerKey ==
    [][\A b \in DOMAIN task :
         (/\ runPc = "running"
          /\ task[b].st = "write"
          /\ WriteKind(task[b].existing, Item(b).qty) = "insert"
          /\ b \in DOMAIN task'
          /\ task'[b] # task[b]
          /\ task'[b].st # "except")
            => ~Exists(Item(b).key)]_vars

\* ------------------------------------------------------------------ C34
\* C34: a loop attempt that starts no run (the source is unavailable, or the
\* sync call raises before its first await) increases failed_syncs by exactly
\* one, and the end of a loop's run increases it by at most one.
C34_FailedAttemptCountsOnce ==
    [][\A i \in LoopIds :
         /\ (/\ loops[i] \in {"ready", "sleep"}
             /\ loops'[i] = "sleep"
             /\ started' = started + 1)
            => sync_stats'.failed_syncs = sync_stats.failed_syncs + 1
         /\ (loops[i] = "run" /\ loops'[i] = "sleep")
            => sync_stats'.failed_syncs - sync_stats.failed_syncs \in {0, 1}]_vars

\* ------------------------------------------------------------------ C35
\* the step in which a full sync ends with its result returned (not raised,
\* not cancelled), on demand or inside the loop
RunSucceeds ==
    /\ runPc = "running"
    /\ runPc' # "running"
    /\ lastRun' \in {"clean", "errors"}

\* C35: every full sync that ends successfully increases total_syncs by
\* exactly one and successful_syncs by exactly one, and successful_syncs
\* never exceeds total_syncs.
C35_SuccessCountsOnceInBoth ==
    /\ [](sync_stats.successful_syncs <= sync_stats.total_syncs)
    /\ [][RunSucceeds =>
            /\ sync_stats'.total_syncs = sync_stats.total_syncs + 1
            /\ sync_stats'.successful_syncs = sync_stats.successful_syncs + 1]_vars

\* ------------------------------------------------------------------ C36
\* C36: no full sync is counted both as successful and as failed: the step
\* that ends a run never increases successful_syncs and failed_syncs together.
C36_RunIsSuccessfulOrFailed ==
    [][~(/\ sync_stats'.successful_syncs > sync_stats.successful_syncs
         /\ sync_stats'.failed_syncs > sync_stats.failed_syncs)]_vars

\* ------------------------------------------------------------------ C37
\* C37: when a full sync of the erp service has returned its statistics,
\* items_updated + items_created + items_unchanged + errors is the number of
\* items of the snapshot it processed.
C37_EveryItemCountedOnce ==
    (impl = "erp" /\ runPc = "done") =>
        stats.items_updated + stats.items_created + stats.items_unchanged + stats.errors
            = Len(snapshot)

\* ------------------------------------------------------------------ C38
\* a thread is inside a pool method that works on connection c
InFlight(c) ==
    \E t \in Threads :
        conn[t] = c /\ pc[t] \notin {"idle", "rc_untrack", "rc_noop", "gc_done"}

\* open connections the pool no longer knows: not queued, not marked checked
\* out and not being worked on (what close_all makes of the connections that
\* are checked out when it runs)
Forgotten ==
    {c \in live : c \notin IdleConns /\ c \notin checked_out /\ ~InFlight(c)}

\* C38: close_all ends with an empty checked-out table and a count of 0, so
\* the connections checked out at that moment are forgotten; a forgotten
\* connection never enters the idle queue or the checked-out table again, and
\* releasing it changes neither the queue, the count, the table nor the open
\* connections.
C38_LateReleaseIsNoOp ==
    [][/\ \A t \in Threads :
            (pc[t] = "ca_clear" /\ pc'[t] = "ca_done")
               => /\ checked_out' = {}
                  /\ active_connections' = 0
                  /\ pool' = pool
       /\ \A c \in Forgotten : c \notin IdleConns' /\ c \notin checked_out'
       /\ \A t \in Threads :
            (pc[t] = "rc_untrack" /\ conn[t] \in Forgotten /\ pc'[t] # pc[t])
               => /\ pc'[t] = "rc_noop"
                  /\ UNCHANGED <<pool, active_connections, checked_out, live>>]_vars

\* connection 1 was checked out when close_all ran, and its release
\* afterwards has returned without effect
C38_Witness ==
    \E t \in Threads :
        /\ pc[t] = "rc_noop"
        /\ conn[t] = 1
        /\ 1 \in Forgotten
        /\ checked_out = {}
        /\ pool = <<>>
        /\ active_connections = 0
        /\ \A u \in Threads \ {t} : pc[u] = "idle"

\* ------------------------------------------------------------------ C39
\* batch b finishes an item of the snapshot without an error in this step
ProcessedOk(b) ==
    /\ runPc = "running"
    /\ task[b].st \in {"find", "write"}
    /\ b \in DOMAIN task'
    /\ task'[b].pos = task[b].pos + 1
    /\ stats'.errors = stats.errors

====
